---- MODULE Spec2Model ----
(***************************************************************************)
(* A model of go3mf's merge engine: the 2D packers of internal/geometry,   *)
(* the Combiner of internal/threemf (flat, grouped and multi-plate merge)  *)
(* the settings writer, the container writer and the build plans.          *)
(*                                                                         *)
(* Lengths are whole millimetres (Go float64 values that are integers;     *)
(* real arithmetic, no rounding error).  A name is a sequence of           *)
(* characters so that the split at '/' is computed, not assumed.           *)
(***************************************************************************)
EXTENDS Integers, Sequences, FiniteSets, TLC

\* ------------------------------------------------------------------ bounds
MaxRects == 3
MaxParts == 3
LongParts == 5
MaxVertices == 3

\* ------------------------------------------------------- program constants
DefaultBuildPlateWidth == 256
PackMaxWidth == 300
MinOptimalWidth == 100
InitialSpaceHeight == 10000
DefaultPackingDistance == 10

VARIABLES
  phase,           \* "ready" before the call, "done" after it returned
  call,            \* the entry point that ran and its arguments
  margin,          \* packingDistance / Packer.margin
  packingObjects,  \* []geometry.Rectangle handed to the packer
  packingResults,  \* []geometry.PackingResult it returned
  packTrace,       \* history of the packer run: the shelf of each result, fallback rows
  tempFiles,       \* the source packages, each the object list Reader.Read returns
  objectGroups,    \* the caller's []models.ObjectGroup
  model,           \* the written model document: Resources.Objects and Build.Items
  settings,        \* the written settings document
  fault,           \* the step of the run the environment makes fail, if any
  template,        \* the entries of the template package tempFiles[0]
  output,          \* the file at the output path
  outcome,         \* what the entry point returned, and whether a stage failed
  plan,            \* the build plan that runs and its position
  scratch          \* the scratch mesh files that exist

mergeVars == <<tempFiles, objectGroups, model, settings>>

ioVars == <<fault, template, output, outcome>>

planVars == <<plan, scratch>>

vars == <<phase, call, margin, packingObjects, packingResults, packTrace,
          tempFiles, objectGroups, model, settings, fault, template, output,
          outcome, plan, scratch>>

\* ----------------------------------------------------------------- helpers
Max(a, b) == IF a >= b THEN a ELSE b

RemoveAt(s, i) == SubSeq(s, 1, i - 1) \o SubSeq(s, i + 1, Len(s))

RECURSIVE SumSeq(_)
SumSeq(s) == IF s = <<>> THEN 0 ELSE Head(s) + SumSeq(Tail(s))

\* less(a, b) of a sort.Slice comparator that compares key tuples field by field
LexLess(a, b) ==
  \E i \in 1..Len(a) : a[i] < b[i] /\ \A j \in 1..(i - 1) : a[j] = b[j]

\* sort.Slice: every order without an inversion; the order of elements the
\* comparator ties is not specified (the sort is not stable)
RECURSIVE SortedOrders(_, _)
SortedOrders(items, keys) ==
  IF items = <<>> THEN {<<>>}
  ELSE UNION { { <<items[i]>> \o rest :
                   rest \in SortedOrders(RemoveAt(items, i), RemoveAt(keys, i)) } :
               i \in { k \in 1..Len(items) :
                         \A j \in 1..Len(items) : ~LexLess(keys[j], keys[k]) } }

\* ------------------------------------------------------------- shelf packer
PackingResult(x, y, obj) ==
  [X |-> x, Y |-> y, ID |-> obj.ID, Fits |-> TRUE,
   Width |-> obj.Width, Height |-> obj.Height]

\* a shelf step that forgets the margin after the object
ShelfPlaceNoMargin(st, obj, m, maxW) ==
  LET brk == st.currentX > 0 /\ st.currentX + obj.Width > maxW
      cx  == IF brk THEN 0 ELSE st.currentX
      cy  == IF brk THEN st.currentY + st.shelfHeight + m ELSE st.currentY
      shf == IF brk THEN st.shelf + 1 ELSE st.shelf
  IN  [currentX    |-> cx + obj.Width,
       currentY    |-> cy,
       shelfHeight |-> Max(IF brk THEN 0 ELSE st.shelfHeight, obj.Height),
       shelf       |-> shf,
       results     |-> Append(st.results, PackingResult(cx, cy, obj)),
       shelves     |-> Append(st.shelves, shf)]

\* a shelf step that asks for room for the margin after the object too
ShelfPlaceTrailingMargin(st, obj, m, maxW) ==
  LET brk == st.currentX > 0 /\ st.currentX + obj.Width + m > maxW
      cx  == IF brk THEN 0 ELSE st.currentX
      cy  == IF brk THEN st.currentY + st.shelfHeight + m ELSE st.currentY
      sh  == IF brk THEN 0 ELSE st.shelfHeight
      shf == IF brk THEN st.shelf + 1 ELSE st.shelf
  IN  [currentX    |-> cx + obj.Width + m,
       currentY    |-> cy,
       shelfHeight |-> Max(sh, obj.Height),
       shelf       |-> shf,
       results     |-> Append(st.results, PackingResult(cx, cy, obj)),
       shelves     |-> Append(st.shelves, shf)]

\* one iteration of the shelf loop (Pack's extra "i > 0" is implied by
\* currentX > 0: currentX is 0 when the first object is placed)
ShelfPlace(st, obj, m, maxW) ==
  LET brk == st.currentX > 0 /\ st.currentX + obj.Width > maxW
      cx  == IF brk THEN 0 ELSE st.currentX
      cy  == IF brk THEN st.currentY + st.shelfHeight + m ELSE st.currentY
      sh  == IF brk THEN 0 ELSE st.shelfHeight
      shf == IF brk THEN st.shelf + 1 ELSE st.shelf
  IN  [currentX    |-> cx + obj.Width + m,
       currentY    |-> cy,
       shelfHeight |-> Max(sh, obj.Height),
       shelf       |-> shf,
       results     |-> Append(st.results, PackingResult(cx, cy, obj)),
       shelves     |-> Append(st.shelves, shf)]

RECURSIVE ShelfLoop(_, _, _, _)
ShelfLoop(st, sorted, m, maxW) ==
  IF sorted = <<>> THEN st
  ELSE ShelfLoop(ShelfPlace(st, Head(sorted), m, maxW), Tail(sorted), m, maxW)

ShelfStart ==
  [currentX |-> 0, currentY |-> 0, shelfHeight |-> 0, shelf |-> 1,
   results |-> <<>>, shelves |-> <<>>]

HeightKeys(objects) == [i \in 1..Len(objects) |-> <<-objects[i].Height>>]

AreaKeys(objects) ==
  [i \in 1..Len(objects) |->
     <<-(objects[i].Width * objects[i].Height), -objects[i].Height>>]

\* Packer.PackOptimal: the set of outcomes, one per order sort.Slice may give
PackOptimal(objects, m, maxBuildPlateWidth) ==
  { ShelfLoop(ShelfStart, sorted, m, maxBuildPlateWidth) :
      sorted \in SortedOrders(objects, HeightKeys(objects)) }

\* Packer.Pack: area-descending shelves with the fixed 300 mm row
Pack(objects, m) ==
  { ShelfLoop(ShelfStart, sorted, m, PackMaxWidth) :
      sorted \in SortedOrders(objects, AreaKeys(objects)) }

\* -------------------------------------------------------- guillotine packer
\* optimalWidth may be irrational (a square root).  A width is kept exactly as
\* fl + e with fl an integer and 0 <= e < 1, e > 0 iff frac; every other
\* quantity of PackCompact is an integer.
IntW(k) == [fl |-> k, frac |-> FALSE]
WidthFits(k, w) == k <= w.fl
WidthGreater(w, k) == w.fl > k \/ (w.fl = k /\ w.frac)
WidthMinus(w, k) == [fl |-> w.fl - k, frac |-> w.frac]

TotalArea(objects, m) ==
  SumSeq([i \in 1..Len(objects) |->
            (objects[i].Width + m) * (objects[i].Height + m)])

MaxObjWidth(objects) ==
  IF objects = <<>> THEN 0
  ELSE CHOOSE w \in {objects[i].Width : i \in 1..Len(objects)} \cup {0} :
         \A i \in 1..Len(objects) : objects[i].Width <= w

\* the largest k in lo..hi with 5k^2 <= 6*area (bisection)
RECURSIVE FloorRoot(_, _, _)
FloorRoot(lo, hi, area) ==
  IF lo >= hi THEN lo
  ELSE LET mid == (lo + hi + 1) \div 2
       IN  IF 5 * mid * mid <= 6 * area
           THEN FloorRoot(mid, hi, area)
           ELSE FloorRoot(lo, mid - 1, area)

\* math.Sqrt(totalArea * 1.2): k <= sqrt(6A/5) iff 5k^2 <= 6A; the root is
\* below the sum of all padded sides
SqrtOfPadded(area, sides) ==
  LET fl == FloorRoot(0, sides, area)
  IN  [fl |-> fl, frac |-> 5 * fl * fl # 6 * area]

TotalSides(objects, m) ==
  SumSeq([i \in 1..Len(objects) |->
            objects[i].Width + objects[i].Height + 2 * m])

OptimalWidth(objects, m) ==
  LET root  == SqrtOfPadded(TotalArea(objects, m), TotalSides(objects, m))
      floor == Max(MaxObjWidth(objects) + m, MinOptimalWidth)
  IN  IF root.fl < floor THEN IntW(floor) ELSE root

SpaceKeys(spaces) == [i \in 1..Len(spaces) |-> <<spaces[i].y, spaces[i].x>>]

CompactKeys(objects) ==
  [i \in 1..Len(objects) |-> <<-objects[i].Height, -objects[i].Width>>]

SpaceFits(obj, space, m) ==
  WidthFits(obj.Width + m, space.width) /\ obj.Height + m <= space.height

\* the object goes into spaces[idx]: split right and below, re-sort the spaces
CompactPlaceIn(st, obj, m, idx) ==
  LET space == st.spaces[idx]
      owm   == obj.Width + m
      ohm   == obj.Height + m
      right == IF WidthGreater(space.width, owm)
               THEN << [x |-> space.x + owm, y |-> space.y,
                        width |-> WidthMinus(space.width, owm),
                        height |-> space.height] >>
               ELSE <<>>
      below == IF space.height > ohm
               THEN << [x |-> space.x, y |-> space.y + ohm,
                        width |-> IntW(owm), height |-> space.height - ohm] >>
               ELSE <<>>
      rest  == RemoveAt(st.spaces, idx) \o right \o below
  IN  { [spaces      |-> sp,
         results     |-> Append(st.results, PackingResult(space.x, space.y, obj)),
         currentMaxX |-> Max(st.currentMaxX, space.x + obj.Width),
         currentMaxY |-> Max(st.currentMaxY, space.y + obj.Height),
         fallbacks   |-> st.fallbacks] :
        sp \in SortedOrders(rest, SpaceKeys(rest)) }

\* a fallback that rejects the object instead of opening a row
CompactFallbackRejects(st, obj, m, optimalWidth) ==
  { [st EXCEPT !.fallbacks = st.fallbacks + 1] }

\* no space takes the object: a new row below everything placed so far
CompactFallback(st, obj, m, optimalWidth) ==
  LET fallbackY == st.currentMaxY + m
      objRight  == obj.Width + m
      objBottom == fallbackY + obj.Height + m
      Keep(space) ==
        \/ space.x >= objRight
        \/ ~WidthGreater(WidthMinus(space.width, -space.x), 0)
        \/ space.y >= objBottom
        \/ space.y + space.height <= fallbackY
      kept  == SelectSeq(st.spaces, Keep)
      right == IF WidthGreater(optimalWidth, objRight)
               THEN << [x |-> objRight, y |-> fallbackY,
                        width |-> WidthMinus(optimalWidth, objRight),
                        height |-> obj.Height + m] >>
               ELSE <<>>
  IN  { [spaces      |-> kept \o right,
         results     |-> Append(st.results, PackingResult(0, fallbackY, obj)),
         currentMaxX |-> Max(st.currentMaxX, obj.Width),
         currentMaxY |-> fallbackY + obj.Height,
         fallbacks   |-> st.fallbacks + 1] }

CompactStep(st, obj, m, optimalWidth) ==
  LET fitting == { i \in 1..Len(st.spaces) : SpaceFits(obj, st.spaces[i], m) }
  IN  IF fitting = {}
      THEN CompactFallback(st, obj, m, optimalWidth)
      ELSE CompactPlaceIn(st, obj, m,
                          CHOOSE i \in fitting : \A j \in fitting : i <= j)

RECURSIVE CompactLoop(_, _, _, _)
CompactLoop(st, sorted, m, optimalWidth) ==
  IF sorted = <<>> THEN {st}
  ELSE UNION { CompactLoop(nxt, Tail(sorted), m, optimalWidth) :
               nxt \in CompactStep(st, Head(sorted), m, optimalWidth) }

CompactStart(optimalWidth) ==
  [spaces |-> << [x |-> 0, y |-> 0, width |-> optimalWidth,
                  height |-> InitialSpaceHeight] >>,
   results |-> <<>>, currentMaxX |-> 0, currentMaxY |-> 0, fallbacks |-> 0]

\* Packer.PackCompact: the set of outcomes
PackCompact(objects, m) ==
  IF objects = <<>> THEN {CompactStart(IntW(MinOptimalWidth))}
  ELSE UNION { CompactLoop(CompactStart(OptimalWidth(objects, m)), sorted, m,
                           OptimalWidth(objects, m)) :
               sorted \in SortedOrders(objects, CompactKeys(objects)) }

\* --------------------------------------------------------------- data model
\* A vertex of the raw mesh; bad marks a coordinate strconv.ParseFloat rejects
Vertex(x, y, z) == [x |-> x, y |-> y, z |-> z, bad |-> FALSE]

\* models.Object as read from a source package.  IDs are the integers that
\* strconv.Itoa prints (Itoa is injective); PID 0 is an absent pid attribute
SourceObject(vertices) ==
  [ID |-> 1, Name |-> <<>>, Type |-> "model", PID |-> 0, HasMesh |-> TRUE,
   Vertices |-> vertices, Components |-> <<>>]

ScadFile(name, slot, pos, rot) ==
  [Name |-> name, FilamentSlot |-> slot,
   PositionX |-> pos[1], PositionY |-> pos[2], PositionZ |-> pos[3],
   RotationX |-> rot[1], RotationY |-> rot[2], RotationZ |-> rot[3]]

\* Loader.ConvertToObjectGroups: a part of a one-part object is named after
\* the object, a part of a larger object is named object/part
CompositeName(objName, partName, nParts) ==
  IF nParts > 1 THEN objName \o <<"/">> \o partName ELSE objName

\* the object name of a part name: everything before the first '/'
ObjectNameOf(name) ==
  LET cut == { j \in 1..Len(name) : name[j] = "/" }
  IN  IF cut = {} THEN name
      ELSE SubSeq(name, 1, (CHOOSE j \in cut : \A k \in cut : j <= k) - 1)

\* ----------------------------------------------------------------- geometry
\* geometry.BuildTranslationTransform: identity rotation, then the translation
\* printed with two decimals; the three translation terms are kept in
\* hundredths of a millimetre
BuildTranslationTransform(tx, ty, tz) ==
  <<1, 0, 0, 0, 1, 0, 0, 0, 1, 100 * tx, 100 * ty, 100 * tz>>

SeqMin(s) == CHOOSE v \in {s[i] : i \in 1..Len(s)} : \A i \in 1..Len(s) : v <= s[i]
SeqMax(s) == CHOOSE v \in {s[i] : i \in 1..Len(s)} : \A i \in 1..Len(s) : v >= s[i]

NoBBox == [err |-> TRUE, MinX |-> 0, MinY |-> 0, MinZ |-> 0,
           MaxX |-> 0, MaxY |-> 0, MaxZ |-> 0]

\* geometry.CalculateBoundingBox: fails without a mesh, without vertices or
\* when the first vertex does not parse; a later vertex that does not parse
\* is skipped
CalculateBoundingBox(obj) ==
  IF ~obj.HasMesh \/ obj.Vertices = <<>> THEN NoBBox
  ELSE IF obj.Vertices[1].bad THEN NoBBox
  ELSE LET good == SelectSeq(obj.Vertices, LAMBDA v : ~v.bad)
           xs == [i \in 1..Len(good) |-> good[i].x]
           ys == [i \in 1..Len(good) |-> good[i].y]
           zs == [i \in 1..Len(good) |-> good[i].z]
       IN  [err |-> FALSE,
            MinX |-> SeqMin(xs), MinY |-> SeqMin(ys), MinZ |-> SeqMin(zs),
            MaxX |-> SeqMax(xs), MaxY |-> SeqMax(ys), MaxZ |-> SeqMax(zs)]

BBoxWidth(b) == b.MaxX - b.MinX
BBoxHeight(b) == b.MaxY - b.MinY

\* geometry.RotateMeshVertices, for the half turns (0 or 180 degrees per axis,
\* whose result does not depend on the composition order): rotates every
\* vertex in place and returns the lowest Z afterwards
RotateVertex(v, rx, ry, rz) ==
  LET sx == IF (ry + rz) % 360 = 0 THEN 1 ELSE -1
      sy == IF (rx + rz) % 360 = 0 THEN 1 ELSE -1
      sz == IF (rx + ry) % 360 = 0 THEN 1 ELSE -1
  IN  [v EXCEPT !.x = sx * v.x, !.y = sy * v.y, !.z = sz * v.z]

RotateMeshVertices(obj, rx, ry, rz) ==
  LET vs == [i \in 1..Len(obj.Vertices) |-> RotateVertex(obj.Vertices[i], rx, ry, rz)]
  IN  [obj  |-> [obj EXCEPT !.Vertices = vs],
       minZ |-> SeqMin([i \in 1..Len(vs) |-> vs[i].z])]

\* geometry.ApplyZOffset: moves every vertex by zOffset along Z
ApplyZOffset(obj, zOffset) ==
  [obj EXCEPT !.Vertices =
     [i \in 1..Len(obj.Vertices) |->
        [obj.Vertices[i] EXCEPT !.z = obj.Vertices[i].z + zOffset]]]

\* ---------------------------------------------------------- settings writer
\* a part entry numbered one too high
SettingsPartShifted(scadFile, partID, sourceObjectID, volumeIndex) ==
  [ID |-> partID + 1, Name |-> scadFile.Name,
   Extruder |-> scadFile.FilamentSlot,
   SourceObjectID |-> sourceObjectID, SourceVolumeID |-> volumeIndex]

\* WriteModelSettings: one settings object per group, its parts numbered by
\* one running partID over all groups; Extruder 0 is "no extruder metadata"
SettingsPart(scadFile, partID, sourceObjectID, volumeIndex) ==
  LET filamentSlot == IF scadFile.FilamentSlot = 0
                      THEN ((partID - 1) % 4) + 1
                      ELSE scadFile.FilamentSlot
  IN  [ID |-> partID, Name |-> scadFile.Name,
       Extruder |-> IF filamentSlot # 1 THEN filamentSlot ELSE 0,
       SourceObjectID |-> sourceObjectID, SourceVolumeID |-> volumeIndex]

RECURSIVE SettingsObjects(_, _, _)
SettingsObjects(groups, partID, sourceObjectID) ==
  IF groups = <<>> THEN <<>>
  ELSE LET group == Head(groups)
           parts == [v \in 1..Len(group.Parts) |->
                       SettingsPart(group.Parts[v], partID + v - 1,
                                    sourceObjectID, v - 1)]
       IN  << [ID |-> group.ID, Name |-> group.Name, Extruder |-> 1,
               Parts |-> parts] >>
           \o SettingsObjects(Tail(groups), partID + Len(group.Parts),
                              sourceObjectID + 1)

WriteModelSettings(groups, buildItems) ==
  [Objects   |-> SettingsObjects(groups, 1, 0),
   Instances |-> [g \in 1..Len(groups) |-> groups[g].ID],
   Assemble  |-> [b \in 1..Len(buildItems) |->
                    [ObjectID |-> buildItems[b].ObjectID,
                     Transform |-> buildItems[b].Transform]],
   Plates    |-> <<>>]

\* ------------------------------------------------------------ grouped merge
\* the objects of all packages in reading order, each with its package index
RECURSIVE FlattenFiles(_, _)
FlattenFiles(files, i) ==
  IF i > Len(files) THEN <<>>
  ELSE [k \in 1..Len(files[i]) |-> [file |-> i, obj |-> files[i][k]]]
       \o FlattenFiles(files, i + 1)

\* a slot resolution that never wraps around
ResolveSlotNoWrap(filamentSlot, i) ==
  IF filamentSlot = 0 THEN i + 1 ELSE filamentSlot

\* filamentSlot of the ingestion loop; i is the 0-based package index
ResolveSlot(filamentSlot, i) ==
  IF filamentSlot = 0 THEN (i % 4) + 1 ELSE filamentSlot

\* the ingestion loop: nextID starts at 1 and is taken once per object, so the
\* k-th object read gets ID k; name and slot come from the package's ScadFile
IngestMeshes(files, scadFiles) ==
  LET flat == FlattenFiles(files, 1)
  IN  [k \in 1..Len(flat) |->
         LET i  == flat[k].file
             sf == scadFiles[i]
             rotated == RotateMeshVertices(flat[k].obj, sf.RotationX,
                                           sf.RotationY, sf.RotationZ).obj
         IN  [rotated EXCEPT !.ID = k, !.Name = sf.Name,
                             !.PID = ResolveSlot(sf.FilamentSlot, i - 1)]]

\* meshMinZ[i]: the lowest Z of package i after rotation (its last object)
MeshMinZ(files, scadFiles) ==
  [i \in 1..Len(files) |->
     RotateMeshVertices(files[i][Len(files[i])], scadFiles[i].RotationX,
                        scadFiles[i].RotationY, scadFiles[i].RotationZ).minZ]

\* objectOrder: the object names in order of first occurrence
RECURSIVE ObjectOrder(_, _)
ObjectOrder(scadFiles, seen) ==
  IF scadFiles = <<>> THEN <<>>
  ELSE LET objectName == ObjectNameOf(Head(scadFiles).Name)
       IN  IF objectName \in seen
           THEN ObjectOrder(Tail(scadFiles), seen)
           ELSE <<objectName>> \o ObjectOrder(Tail(scadFiles), seen \cup {objectName})

\* objectGroupsMap[objectName]: the 1-based indices of its parts, ascending
MeshIDsOf(objectName, scadFiles) ==
  LET Belongs(i) == ObjectNameOf(scadFiles[i].Name) = objectName
  IN  SelectSeq([i \in 1..Len(scadFiles) |-> i], Belongs)

\* the bounding box moved by a part's XY position offset
ShiftedBBox(b, scadFile) ==
  [b EXCEPT !.MinX = b.MinX + scadFile.PositionX,
            !.MaxX = b.MaxX + scadFile.PositionX,
            !.MinY = b.MinY + scadFile.PositionY,
            !.MaxY = b.MaxY + scadFile.PositionY]

\* a footprint that gives up on the whole group when one member has no box
FootprintAllOrNothing(groupObjects, groupScadFiles) ==
  LET boxes == [i \in 1..Len(groupObjects) |->
                  ShiftedBBox(CalculateBoundingBox(groupObjects[i]), groupScadFiles[i])]
  IN  IF \E i \in 1..Len(boxes) : boxes[i].err
      THEN [width |-> IF Len(boxes) = 1 THEN 50 ELSE 100,
            height |-> IF Len(boxes) = 1 THEN 50 ELSE 100,
            bboxOffsetX |-> 0, bboxOffsetY |-> 0]
      ELSE [width |-> SeqMax([i \in 1..Len(boxes) |-> boxes[i].MaxX])
                        - SeqMin([i \in 1..Len(boxes) |-> boxes[i].MinX]),
            height |-> SeqMax([i \in 1..Len(boxes) |-> boxes[i].MaxY])
                         - SeqMin([i \in 1..Len(boxes) |-> boxes[i].MinY]),
            bboxOffsetX |-> -SeqMin([i \in 1..Len(boxes) |-> boxes[i].MinX]),
            bboxOffsetY |-> -SeqMin([i \in 1..Len(boxes) |-> boxes[i].MinY])]

\* width, height and corner offset of one group
Footprint(groupObjects, groupScadFiles) ==
  IF Len(groupObjects) = 1
  THEN LET bbox == CalculateBoundingBox(groupObjects[1])
       IN  IF ~bbox.err
           THEN [width |-> BBoxWidth(bbox), height |-> BBoxHeight(bbox),
                 bboxOffsetX |-> -bbox.MinX, bboxOffsetY |-> -bbox.MinY]
           ELSE [width |-> 50, height |-> 50, bboxOffsetX |-> 0, bboxOffsetY |-> 0]
  ELSE LET boxes == [i \in 1..Len(groupObjects) |->
                       ShiftedBBox(CalculateBoundingBox(groupObjects[i]),
                                   groupScadFiles[i])]
           good  == SelectSeq(boxes, LAMBDA b : ~b.err)
       IN  IF good # <<>>
           THEN LET minX == SeqMin([i \in 1..Len(good) |-> good[i].MinX])
                    minY == SeqMin([i \in 1..Len(good) |-> good[i].MinY])
                    maxX == SeqMax([i \in 1..Len(good) |-> good[i].MaxX])
                    maxY == SeqMax([i \in 1..Len(good) |-> good[i].MaxY])
                IN  [width |-> maxX - minX, height |-> maxY - minY,
                     bboxOffsetX |-> -minX, bboxOffsetY |-> -minY]
           ELSE [width |-> 100, height |-> 100, bboxOffsetX |-> 0, bboxOffsetY |-> 0]

\* objectInfoMap, as a sequence: entry p + 1 is the group with packingID p
ObjectInfos(allMeshObjects, scadFiles) ==
  LET order == ObjectOrder(scadFiles, {})
  IN  [p \in 1..Len(order) |->
         LET meshIDs == MeshIDsOf(order[p], scadFiles)
             groupObjects == [j \in 1..Len(meshIDs) |-> allMeshObjects[meshIDs[j]]]
             groupScadFiles == [j \in 1..Len(meshIDs) |-> scadFiles[meshIDs[j]]]
             fp == Footprint(groupObjects, groupScadFiles)
         IN  [meshIDs |-> meshIDs, objectName |-> order[p],
              scadFiles |-> groupScadFiles,
              width |-> fp.width, height |-> fp.height,
              bboxOffsetX |-> fp.bboxOffsetX, bboxOffsetY |-> fp.bboxOffsetY]]

PackingObjects(infos) ==
  [p \in 1..Len(infos) |->
     [ID |-> p - 1, Width |-> infos[p].width, Height |-> infos[p].height]]

\* normalizePosition of an object name: true unless the first supplied group
\* of that name says otherwise
NormalizePositionOf(groups, objectName) ==
  LET hits == { g \in 1..Len(groups) : groups[g].Name = objectName }
  IN  IF hits = {} THEN TRUE
      ELSE groups[CHOOSE g \in hits : \A h \in hits : g <= h].NormalizePosition

\* group-level Z normalization: every member of a normalized group is moved
\* by minus the group's lowest effective Z (mesh minimum plus PositionZ)
GroupMinZ(info, meshMinZ) ==
  SeqMin([j \in 1..Len(info.meshIDs) |->
            meshMinZ[info.meshIDs[j]] + info.scadFiles[j].PositionZ])

NormalizeGroups(allMeshObjects, infos, meshMinZ, groups) ==
  [k \in 1..Len(allMeshObjects) |->
     LET mine == { p \in 1..Len(infos) :
                     /\ \E j \in 1..Len(infos[p].meshIDs) : infos[p].meshIDs[j] = k
                     /\ NormalizePositionOf(groups, infos[p].objectName)
                     /\ GroupMinZ(infos[p], meshMinZ) # 0 }
     IN  IF mine = {} THEN allMeshObjects[k]
         ELSE ApplyZOffset(allMeshObjects[k],
                           -GroupMinZ(infos[CHOOSE p \in mine : TRUE], meshMinZ))]

ParentObject(id, name, components) ==
  [ID |-> id, Name |-> name, Type |-> "model", PID |-> 0, HasMesh |-> FALSE,
   Vertices |-> <<>>, Components |-> components]

BuildItem(objectID, transform) ==
  [ObjectID |-> objectID, Transform |-> transform, Printable |-> 1]

SettingsGroup(id, info, groups) ==
  [ID |-> id, Name |-> info.objectName, Parts |-> info.scadFiles,
   NormalizePosition |-> NormalizePositionOf(groups, info.objectName)]

\* an emit loop whose counter skips one ID before the first parent
EmitStartSkipping(nextID) ==
  [nextID |-> nextID + 1, parentObjects |-> <<>>, buildItems |-> <<>>,
   settingsGroups |-> <<>>, objectIDs |-> <<>>]

EmitStart(nextID) ==
  [nextID |-> nextID, parentObjects |-> <<>>, buildItems |-> <<>>,
   settingsGroups |-> <<>>, objectIDs |-> <<>>]

\* one iteration of the emit loop for the group of a packing result, placed
\* at (posX, posY); zOffset is always 0
EmitGroup(st, info, posX, posY, groups) ==
  IF Len(info.meshIDs) = 1
  THEN LET objectID == info.meshIDs[1]
           scadFile == info.scadFiles[1]
       IN  [st EXCEPT
              !.buildItems = Append(@, BuildItem(objectID,
                 BuildTranslationTransform(posX + scadFile.PositionX + info.bboxOffsetX,
                                           posY + scadFile.PositionY + info.bboxOffsetY,
                                           0 + scadFile.PositionZ))),
              !.settingsGroups = Append(@, SettingsGroup(objectID, info, groups)),
              !.objectIDs = Append(@, objectID)]
  ELSE LET components ==
             [j \in 1..Len(info.meshIDs) |->
                [ObjectID  |-> info.meshIDs[j],
                 Transform |-> BuildTranslationTransform(info.scadFiles[j].PositionX,
                                                         info.scadFiles[j].PositionY,
                                                         info.scadFiles[j].PositionZ)]]
           parentID == st.nextID
       IN  [st EXCEPT
              !.nextID = parentID + 1,
              !.parentObjects = Append(@, ParentObject(parentID, info.objectName, components)),
              !.buildItems = Append(@, BuildItem(parentID,
                 BuildTranslationTransform(posX + info.bboxOffsetX,
                                           posY + info.bboxOffsetY, 0))),
              !.settingsGroups = Append(@, SettingsGroup(parentID, info, groups)),
              !.objectIDs = Append(@, parentID)]

RECURSIVE EmitLoop(_, _, _, _, _)
EmitLoop(st, results, infos, groups, plateXOffset) ==
  IF results = <<>> THEN st
  ELSE LET result == Head(results)
       IN  EmitLoop(EmitGroup(st, infos[result.ID + 1], result.X + plateXOffset,
                              result.Y, groups),
                    Tail(results), infos, groups, plateXOffset)

\* the packer run the merge asks for
RunPacker(packingObjs, dist, algorithm, maxWidth) ==
  IF algorithm = "compact"
  THEN { [results |-> r.results, shelves |-> <<>>, fallbacks |-> r.fallbacks] :
           r \in PackCompact(packingObjs, dist) }
  ELSE { [results |-> r.results, shelves |-> r.shelves, fallbacks |-> 0] :
           r \in PackOptimal(packingObjs, dist, maxWidth) }

\* Combiner.combineWithGroupsAndDistanceInternal: every outcome of the merge
\* (one per order the packer's sort may produce)
CombineWithGroupsAndDistanceInternal(files, scadFiles, groups, dist, algorithm) ==
  LET ingested   == IngestMeshes(files, scadFiles)
      infos      == ObjectInfos(ingested, scadFiles)
      packingObjs == PackingObjects(infos)
      allMeshObjects ==
        NormalizeGroups(ingested, infos, MeshMinZ(files, scadFiles), groups)
  IN  { LET e == EmitLoop(EmitStart(Len(ingested) + 1), run.results, infos, groups, 0)
        IN  [model    |-> [Objects |-> allMeshObjects \o e.parentObjects,
                           Items   |-> e.buildItems],
             settings |-> WriteModelSettings(e.settingsGroups, e.buildItems),
             packingObjects |-> packingObjs,
             packingResults |-> run.results,
             packTrace |-> [shelves |-> run.shelves, fallbacks |-> run.fallbacks]] :
        run \in RunPacker(packingObjs, dist, algorithm, DefaultBuildPlateWidth) }

\* the flattening of CombineWithObjectGroups
RECURSIVE FlattenGroups(_)
FlattenGroups(groups) ==
  IF groups = <<>> THEN <<>>
  ELSE Head(groups).Parts \o FlattenGroups(Tail(groups))

\* --------------------------------------------------------------- flat merge
RECURSIVE XOffsets(_, _, _)
XOffsets(objects, dist, currentXOffset) ==
  IF objects = <<>> THEN <<>>
  ELSE LET bbox == CalculateBoundingBox(Head(objects))
           step == IF ~bbox.err THEN BBoxWidth(bbox) + dist ELSE 50
       IN  <<currentXOffset>> \o XOffsets(Tail(objects), dist, currentXOffset + step)

\* Combiner.CombineWithDistance: every object of package i gets ID i, the
\* components count the objects, one parent and one build item
CombineWithDistance(files, scadFiles, dist) ==
  LET flat == FlattenFiles(files, 1)
      allObjects ==
        [k \in 1..Len(flat) |->
           LET i == flat[k].file
           IN  [flat[k].obj EXCEPT !.ID = i, !.Name = scadFiles[i].Name,
                  !.PID = ResolveSlot(scadFiles[i].FilamentSlot, i - 1)]]
      xs == XOffsets(allObjects, dist, 0)
      components ==
        [k \in 1..Len(allObjects) |->
           [ObjectID |-> k, Transform |-> BuildTranslationTransform(xs[k], 0, 0)]]
      parentID == Len(allObjects) + 1
      buildItems == << BuildItem(parentID, BuildTranslationTransform(0, 0, 0)) >>
      groups == << [ID |-> parentID, Name |-> <<"combined">>, Parts |-> scadFiles,
                    NormalizePosition |-> FALSE] >>
  IN  [model    |-> [Objects |-> Append(allObjects, ParentObject(parentID, <<>>, components)),
                     Items   |-> buildItems],
       settings |-> WriteModelSettings(groups, buildItems)]

\* ------------------------------------------------------ standalone combiner
\* combine.Combiner.Combine (package combine): at least two files; every
\* object of file i gets ID i and the file's base name, components stand 50 mm
\* apart; its writeModelSettings always writes the extruder
CombineFiles(files) ==
  LET flat == FlattenFiles(files, 1)
      FileName(i) == <<"file", ToString(i)>>
      allObjects ==
        [k \in 1..Len(flat) |->
           [flat[k].obj EXCEPT !.ID = flat[k].file, !.Name = FileName(flat[k].file)]]
      components ==
        [k \in 1..Len(allObjects) |->
           [ObjectID |-> k, Transform |-> BuildTranslationTransform((k - 1) * 50, 0, 0)]]
      parentID == Len(allObjects) + 1
      parts ==
        [i \in 1..Len(files) |->
           [ID |-> i, Name |-> FileName(i), Extruder |-> ((i - 1) % 4) + 1,
            SourceObjectID |-> i - 1, SourceVolumeID |-> 0]]
      settingsID == Len(files) + 1
  IN  [model    |-> [Objects |-> Append(allObjects, ParentObject(parentID, <<>>, components)),
                     Items   |-> << BuildItem(parentID, BuildTranslationTransform(0, 0, 0)) >>],
       settings |-> [Objects   |-> << [ID |-> settingsID, Name |-> <<"combined">>,
                                       Extruder |-> 1, Parts |-> parts] >>,
                     Instances |-> <<settingsID>>,
                     Assemble  |-> << [ObjectID |-> settingsID,
                                       Transform |-> BuildTranslationTransform(0, 0, 0)] >>,
                     Plates    |-> <<>>]]

\* -------------------------------------------------------- multi-plate merge
\* PlateGroup is [Objects |-> the plate's ObjectGroups]
RECURSIVE PlateObjects(_)
PlateObjects(plateGroups) ==
  IF plateGroups = <<>> THEN <<>>
  ELSE Head(plateGroups).Objects \o PlateObjects(Tail(plateGroups))

\* allScadFiles: every part renamed to its object's name
RECURSIVE PlateScadFiles(_)
PlateScadFiles(groups) ==
  IF groups = <<>> THEN <<>>
  ELSE [j \in 1..Len(Head(groups).Parts) |->
          [Head(groups).Parts[j] EXCEPT !.Name = Head(groups).Name]]
       \o PlateScadFiles(Tail(groups))

\* objectToPlate: the last plate (0-based) that lists an object of that name,
\* plate 0 for a name no plate lists
ObjectToPlate(plateGroups, objectName) ==
  LET hits == { p \in 1..Len(plateGroups) :
                  \E g \in 1..Len(plateGroups[p].Objects) :
                    plateGroups[p].Objects[g].Name = objectName }
  IN  IF hits = {} THEN 0
      ELSE (CHOOSE p \in hits : \A q \in hits : q <= p) - 1

\* WriteModelSettingsWithPlates: the settings document of WriteModelSettings
\* with one plate block per plate listing the plate's object IDs
WriteModelSettingsWithPlates(groups, buildItems, nPlates, objectIDs, plateOfResult) ==
  [WriteModelSettings(groups, buildItems) EXCEPT
     !.Plates = [p \in 1..nPlates |->
                   [PlaterID |-> p,
                    ObjectIDs |-> SelectSeq(
                       [k \in 1..Len(objectIDs) |->
                          IF plateOfResult[k] = p - 1 THEN objectIDs[k] ELSE 0],
                       LAMBDA id : id # 0)]]]

\* the per-plate loop: pack the plate's footprints, emit its groups shifted by
\* plateIdx * plateWidth; plates without objects are skipped
RECURSIVE PlateLoop(_, _, _, _, _, _, _, _)
PlateLoop(st, plateIdx, plateGroups, infos, groups, dist, algorithm, plateWidth) ==
  IF plateIdx >= Len(plateGroups) THEN {st}
  ELSE LET objs == SelectSeq(PackingObjects(infos),
                     LAMBDA r : ObjectToPlate(plateGroups, infos[r.ID + 1].objectName)
                                  = plateIdx)
       IN  IF objs = <<>>
           THEN PlateLoop(st, plateIdx + 1, plateGroups, infos, groups, dist,
                          algorithm, plateWidth)
           ELSE UNION {
                  PlateLoop(
                    [EmitLoop(st, run.results, infos, groups, plateIdx * plateWidth)
                       EXCEPT !.results = @ \o run.results,
                              !.plateOfResult = @ \o [k \in 1..Len(run.results) |-> plateIdx],
                              !.shelves = @ \o run.shelves,
                              !.fallbacks = @ + run.fallbacks],
                    plateIdx + 1, plateGroups, infos, groups, dist, algorithm,
                    plateWidth) :
                  run \in RunPacker(objs, dist, algorithm, plateWidth) }

PlateStart(nextID) ==
  [nextID |-> nextID, parentObjects |-> <<>>, buildItems |-> <<>>,
   settingsGroups |-> <<>>, objectIDs |-> <<>>,
   results |-> <<>>, plateOfResult |-> <<>>, shelves |-> <<>>, fallbacks |-> 0]

\* Combiner.CombineWithPlateGroups: every outcome of the multi-plate merge
CombineWithPlateGroups(files, plateGroups, dist, algorithm, plateWidth) ==
  LET flat == FlattenFiles(files, 1)
      allMeshObjects == [k \in 1..Len(flat) |-> [flat[k].obj EXCEPT !.ID = k]]
      allObjectGroups == PlateObjects(plateGroups)
      allScadFiles == PlateScadFiles(allObjectGroups)
      infos == ObjectInfos(allMeshObjects, allScadFiles)
  IN  { [model    |-> [Objects |-> allMeshObjects \o e.parentObjects,
                       Items   |-> e.buildItems],
         settings |-> WriteModelSettingsWithPlates(e.settingsGroups, e.buildItems,
                        Len(plateGroups), e.objectIDs, e.plateOfResult),
         packingObjects |-> PackingObjects(infos),
         packingResults |-> e.results,
         packTrace |-> [shelves |-> e.shelves, fallbacks |-> e.fallbacks,
                        plates |-> e.plateOfResult]] :
        e \in PlateLoop(PlateStart(Len(allMeshObjects) + 1), 0, plateGroups, infos,
                        allObjectGroups, dist, algorithm, plateWidth) }

\* -------------------------------------------------------- container files
NoFault == [kind |-> "none", at |-> 0]

NoFile == [exists |-> FALSE, entries |-> <<>>, sealed |-> FALSE]

\* the file os.Create made, with the entries written so far; sealed when
\* zip.Writer.Close wrote the central directory
File(entries, sealed) == [exists |-> TRUE, entries |-> entries, sealed |-> sealed]

Entry(name, data) == [name |-> name, data |-> data]

GeneratedNames == {"3D/3dmodel.model", "Metadata/model_settings.config"}

ModelEntry == Entry("3D/3dmodel.model", "generated")

SettingsEntry == Entry("Metadata/model_settings.config", "generated")

\* Reader.Read of package number at (1-based) fails: the archive does not
\* open, has no model entry, or its XML does not parse
ReadFails(files, flt) == flt.kind = "read" /\ flt.at \in 1..Len(files)

\* the copy loop over the first last entries of the template: the entries
\* with a generated name are skipped, the others copied under their name
CopyEntries(tpl, last) ==
  SelectSeq(SubSeq(tpl, 1, last), LAMBDA e : e.name \notin GeneratedNames)

EntryFaults == {"openEntry", "createEntry", "copyEntry"}

\* the fault hits an entry the copy loop handles
HitsEntry(tpl, flt) ==
  /\ flt.kind \in EntryFaults
  /\ flt.at \in 1..Len(tpl)
  /\ tpl[flt.at].name \notin GeneratedNames

\* Writer.WriteBambu: opens the template, creates the output file, writes the
\* model entry, the settings entry and a copy of every other template entry,
\* returning at the first error; the deferred Close calls run on every return
\* and their errors are dropped
WriteBambu(before, tpl, flt) ==
  LET head == <<ModelEntry, SettingsEntry>>
  IN  CASE flt.kind \in {"openSource", "createOutput"} ->
             [file |-> before, err |-> TRUE, failed |-> TRUE]
        [] flt.kind = "modelEntry" ->
             [file |-> File(<<>>, FALSE), err |-> TRUE, failed |-> TRUE]
        [] flt.kind = "settingsEntry" ->
             [file |-> File(<<ModelEntry>>, FALSE), err |-> TRUE, failed |-> TRUE]
        [] HitsEntry(tpl, flt) ->
             LET done == head \o CopyEntries(tpl, flt.at - 1)
             IN  [file |-> IF flt.kind = "openEntry" THEN File(done, TRUE)
                           ELSE IF flt.kind = "createEntry" THEN File(done, FALSE)
                           ELSE File(Append(done, Entry(tpl[flt.at].name, "partial")),
                                     FALSE),
                  err |-> TRUE, failed |-> TRUE]
        [] flt.kind = "close" ->
             [file |-> File(head \o CopyEntries(tpl, Len(tpl)), FALSE),
              err |-> FALSE, failed |-> TRUE]
        [] OTHER ->
             [file |-> File(head \o CopyEntries(tpl, Len(tpl)), TRUE),
              err |-> FALSE, failed |-> FALSE]

\* Writer.WriteBambuWithPlates: the same steps, with the plate settings
WriteBambuWithPlates(before, tpl, flt) == WriteBambu(before, tpl, flt)

\* combine.Combiner.writeModelBambu: as WriteBambu up to the copy loop; the
\* loop skips an entry it cannot open or create and ignores a failed copy
WriteModelBambu(before, tpl, flt) ==
  LET head == <<ModelEntry, SettingsEntry>>
  IN  CASE flt.kind \in {"openSource", "createOutput"} ->
             [file |-> before, err |-> TRUE, failed |-> TRUE]
        [] flt.kind = "modelEntry" ->
             [file |-> File(<<>>, FALSE), err |-> TRUE, failed |-> TRUE]
        [] flt.kind = "settingsEntry" ->
             [file |-> File(<<ModelEntry>>, FALSE), err |-> TRUE, failed |-> TRUE]
        [] HitsEntry(tpl, flt) ->
             [file |-> IF flt.kind = "copyEntry"
                       THEN File(head \o CopyEntries(
                                   [tpl EXCEPT ![flt.at].data = "partial"], Len(tpl)), TRUE)
                       ELSE File(head \o CopyEntries(RemoveAt(tpl, flt.at), Len(tpl) - 1),
                                 TRUE),
              err |-> FALSE, failed |-> TRUE]
        [] flt.kind = "close" ->
             [file |-> File(head \o CopyEntries(tpl, Len(tpl)), FALSE),
              err |-> FALSE, failed |-> TRUE]
        [] OTHER ->
             [file |-> File(head \o CopyEntries(tpl, Len(tpl)), TRUE),
              err |-> FALSE, failed |-> FALSE]

\* ------------------------------------------------- the packers on their own
RectShapes ==
  { <<40, 40>>, <<60, 30>>, <<20, 20>>, <<150, 100>>, <<200, 20>>,
    <<300, 10>>, <<200, 0>> }

Margins == {0, DefaultPackingDistance}

PlateWidths == {DefaultBuildPlateWidth, 180}

\* Rectangle{Width, Height, ID}; X and Y of the input are never read
Rectangle(id, shape) == [ID |-> id, Width |-> shape[1], Height |-> shape[2]]

RectLists ==
  UNION { { [i \in 1..n |-> Rectangle(i - 1, f[i])] : f \in [1..n -> RectShapes] } :
          n \in 0..MaxRects }

NoTrace == [shelves |-> <<>>, fallbacks |-> 0]

NoDocument == [Objects |-> <<>>, Items |-> <<>>]

NotReturned == [returned |-> "none", failed |-> FALSE]

NoPlan == [kind |-> "none", pc |-> "none", RenderedFiles |-> <<>>, result |-> "none"]

PackInit ==
  /\ phase = "ready"
  /\ call = [op |-> "none"]
  /\ margin \in Margins
  /\ packingObjects \in RectLists
  /\ packingResults = <<>>
  /\ packTrace = NoTrace
  /\ tempFiles = <<>>
  /\ objectGroups = <<>>
  /\ model = NoDocument
  /\ settings = NoDocument
  /\ fault = NoFault
  /\ template = <<>>
  /\ output = NoFile
  /\ outcome = NotReturned
  /\ plan = NoPlan
  /\ scratch = {}

CallPackOptimal ==
  /\ phase = "ready"
  /\ \E maxW \in PlateWidths :
       \E out \in PackOptimal(packingObjects, margin, maxW) :
         /\ packingResults' = out.results
         /\ packTrace' = [shelves |-> out.shelves, fallbacks |-> 0]
         /\ call' = [op |-> "PackOptimal", maxBuildPlateWidth |-> maxW]
  /\ phase' = "done"
  /\ UNCHANGED <<margin, packingObjects, mergeVars, ioVars, planVars>>

CallPack ==
  /\ phase = "ready"
  /\ \E out \in Pack(packingObjects, margin) :
       /\ packingResults' = out.results
       /\ packTrace' = [shelves |-> out.shelves, fallbacks |-> 0]
  /\ call' = [op |-> "Pack"]
  /\ phase' = "done"
  /\ UNCHANGED <<margin, packingObjects, mergeVars, ioVars, planVars>>

CallPackCompact ==
  /\ phase = "ready"
  /\ \E out \in PackCompact(packingObjects, margin) :
       /\ packingResults' = out.results
       /\ packTrace' = [shelves |-> <<>>, fallbacks |-> out.fallbacks]
  /\ call' = [op |-> "PackCompact"]
  /\ phase' = "done"
  /\ UNCHANGED <<margin, packingObjects, mergeVars, ioVars, planVars>>

PackNext == CallPackOptimal \/ CallPack \/ CallPackCompact

PackSpec == PackInit /\ [][PackNext]_vars

\* the guillotine packer on longer lists: up to MaxCopies rectangles of each
\* shape, enough for a row of two, a fallback row below it and further
\* rectangles beside both
MaxCopies == 2

RowShapes == << <<40, 50>>, <<40, 45>>, <<80, 40>>, <<20, 30>>, <<20, 25>> >>

\* count[k] rectangles of shape k, shape after shape
RECURSIVE RowList(_, _, _)
RowList(count, k, id) ==
  IF k > Len(RowShapes) THEN <<>>
  ELSE [i \in 1..count[k] |-> Rectangle(id + i - 1, RowShapes[k])]
       \o RowList(count, k + 1, id + count[k])

RowLists == { RowList(count, 1, 0) : count \in [1..Len(RowShapes) -> 0..MaxCopies] }

RowsInit ==
  /\ phase = "ready"
  /\ call = [op |-> "none"]
  /\ margin \in Margins
  /\ packingObjects \in RowLists
  /\ packingResults = <<>>
  /\ packTrace = NoTrace
  /\ tempFiles = <<>>
  /\ objectGroups = <<>>
  /\ model = NoDocument
  /\ settings = NoDocument
  /\ fault = NoFault
  /\ template = <<>>
  /\ output = NoFile
  /\ outcome = NotReturned
  /\ plan = NoPlan
  /\ scratch = {}

SpecRows == RowsInit /\ [][CallPackCompact]_vars

\* --------------------------------------------------------------- the merges
MeshShapes ==
  [cube |-> <<Vertex(0, 0, 0), Vertex(20, 20, 10)>>,
   tall |-> <<Vertex(10, 5, 3), Vertex(40, 45, 13)>>,
   wide |-> <<Vertex(0, 0, 0), Vertex(150, 10, 5)>>,
   block |-> <<Vertex(0, 0, 0), Vertex(100, 100, 10)>>,
   broken |-> <<[x |-> 0, y |-> 0, z |-> 0, bad |-> TRUE],
                Vertex(0, 0, 0), Vertex(20, 20, 10)>>]

PartKinds ==
  { [mesh |-> "cube", slot |-> 0, pos |-> <<0, 0, 0>>, rot |-> <<0, 0, 0>>],
    [mesh |-> "tall", slot |-> 0, pos |-> <<5, 0, 2>>, rot |-> <<0, 0, 0>>],
    [mesh |-> "wide", slot |-> 3, pos |-> <<0, 0, 0>>, rot |-> <<180, 0, 0>>] }

LongKinds ==
  { [mesh |-> "cube", slot |-> 0, pos |-> <<0, 0, 0>>, rot |-> <<0, 0, 0>>],
    [mesh |-> "tall", slot |-> 4, pos |-> <<5, 0, 2>>, rot |-> <<0, 0, 0>>] }

GroupKinds ==
  { [name |-> <<"A">>, normalize |-> TRUE], [name |-> <<"B">>, normalize |-> FALSE] }

PartNames == << <<"p">>, <<"q">>, <<"r">>, <<"s">>, <<"t">>, <<"u">>, <<"v">> >>

PackingAlgorithms == {"default", "compact"}

RECURSIVE Ascending(_)
Ascending(S) ==
  IF S = {} THEN <<>>
  ELSE LET m == CHOOSE x \in S : \A y \in S : x <= y
       IN  <<m>> \o Ascending(S \ {m})

\* the groups a configuration of n parts yields: a new group starts after
\* every index in breaks; group g is of kind gk[g], part i of kind pk[i]
GroupsOf(n, pk, breaks, gk) ==
  LET starts == Ascending({1} \cup { b + 1 : b \in breaks })
      EndOf(g) == IF g = Len(starts) THEN n ELSE starts[g + 1] - 1
  IN  [g \in 1..Len(starts) |->
         LET size == EndOf(g) - starts[g] + 1
         IN  [ID |-> 0, Name |-> gk[g].name, NormalizePosition |-> gk[g].normalize,
              Parts |-> [j \in 1..size |->
                 LET k == pk[starts[g] + j - 1]
                 IN  ScadFile(CompositeName(gk[g].name, PartNames[j], size),
                              k.slot, k.pos, k.rot)]]]

\* one package per part; a package of a part marked in extra holds a second object
FilesOf(n, pk, extra) ==
  [i \in 1..n |->
     IF i \in extra
     THEN << SourceObject(MeshShapes[pk[i].mesh]), SourceObject(MeshShapes.cube) >>
     ELSE << SourceObject(MeshShapes[pk[i].mesh]) >>]

\* the packages and groups of a merge, nothing written yet
MergeInputs(sizes, partKinds, maxBreaks, extras, groupKinds) ==
  /\ phase = "ready"
  /\ call = [op |-> "none"]
  /\ margin = 0
  /\ packingObjects = <<>>
  /\ packingResults = <<>>
  /\ packTrace = NoTrace
  /\ \E n \in sizes :
       \E pk \in [1..n -> partKinds],
          breaks \in { b \in SUBSET (1..(n - 1)) : Cardinality(b) <= maxBreaks } :
         \E gk \in [1..(Cardinality(breaks) + 1) -> groupKinds] :
           /\ objectGroups = GroupsOf(n, pk, breaks, gk)
           /\ \E extra \in { e \in extras : e \subseteq 1..n } :
                tempFiles = FilesOf(n, pk, extra)
  /\ model = NoDocument
  /\ settings = NoDocument
  /\ output = NoFile
  /\ outcome = NotReturned

\* the entries of a package as OpenSCAD writes it
PlainTemplate ==
  << Entry("[Content_Types].xml", "types"), Entry("_rels/.rels", "rels"),
     Entry("3D/3dmodel.model", "mesh") >>

\* a merge in an environment where nothing fails, called directly
MergeInitOf(sizes, partKinds, maxBreaks, extras, groupKinds) ==
  /\ MergeInputs(sizes, partKinds, maxBreaks, extras, groupKinds)
  /\ fault = NoFault
  /\ template = PlainTemplate
  /\ plan = NoPlan
  /\ scratch = {}

MergeInit(sizes, partKinds, maxBreaks, extras) ==
  MergeInitOf(sizes, partKinds, maxBreaks, extras, GroupKinds)

\* Every merge takes tempFiles[0] as the template package, so it is called
\* with at least one package.

\* what the caller gets: the error, or nil from an entry point that drops it
Returned(err, dropsError) == IF err /\ ~dropsError THEN "error" ELSE "nil"

\* a package could not be read: the merge returns before it builds anything
ReadAborted(dropsError) ==
  /\ outcome' = [returned |-> Returned(TRUE, dropsError), failed |-> TRUE]
  /\ phase' = "done"
  /\ UNCHANGED <<margin, packingObjects, packingResults, packTrace, mergeVars,
                 fault, template, output>>

\* the documents are handed to the writer and its result is returned
Written(w, dropsError) ==
  /\ output' = w.file
  /\ outcome' = [returned |-> Returned(w.err, dropsError), failed |-> w.failed]
  /\ UNCHANGED <<fault, template>>

\* the grouped merge built its documents
GroupedDone(out, dist) ==
  /\ model' = out.model
  /\ settings' = out.settings
  /\ margin' = dist
  /\ packingObjects' = out.packingObjects
  /\ packingResults' = out.packingResults
  /\ packTrace' = out.packTrace
  /\ phase' = "done"
  /\ UNCHANGED <<tempFiles, objectGroups>>

\* combineWithGroupsAndDistanceInternal as the entry points call it
GroupedMerge(op, groups, dist, algorithm, dropsError) ==
  /\ call' = [op |-> op, algorithm |-> algorithm]
  /\ IF ReadFails(tempFiles, fault)
     THEN ReadAborted(dropsError)
     ELSE \E out \in CombineWithGroupsAndDistanceInternal(
                       tempFiles, FlattenGroups(objectGroups), groups, dist, algorithm) :
            /\ GroupedDone(out, dist)
            /\ Written(WriteBambu(output, template, fault), dropsError)

DoCombineWithObjectGroups ==
  /\ phase = "ready"
  /\ tempFiles # <<>>
  /\ \E dist \in Margins, algorithm \in PackingAlgorithms :
       GroupedMerge("CombineWithObjectGroups", objectGroups, dist, algorithm, FALSE)

CallCombineWithObjectGroups == DoCombineWithObjectGroups /\ UNCHANGED planVars

\* Combiner.CombineWithGroupsAndDistance: no ObjectGroups
DoCombineWithGroupsAndDistance ==
  /\ phase = "ready"
  /\ tempFiles # <<>>
  /\ \E algorithm \in PackingAlgorithms :
       GroupedMerge("CombineWithGroupsAndDistance", <<>>, DefaultPackingDistance,
                    algorithm, FALSE)

CallCombineWithGroupsAndDistance == DoCombineWithGroupsAndDistance /\ UNCHANGED planVars

\* Combiner.CombineWithGroups: distance 10, default algorithm, no ObjectGroups;
\* the error of the merge is dropped and nil returned
DoCombineWithGroups ==
  /\ phase = "ready"
  /\ tempFiles # <<>>
  /\ GroupedMerge("CombineWithGroups", <<>>, DefaultPackingDistance, "default", TRUE)

CallCombineWithGroups == DoCombineWithGroups /\ UNCHANGED planVars

\* CombineWithDistance as the entry points call it
FlatMerge(op, dist, dropsError) ==
  /\ call' = [op |-> op]
  /\ IF ReadFails(tempFiles, fault)
     THEN ReadAborted(dropsError)
     ELSE LET out == CombineWithDistance(tempFiles, FlattenGroups(objectGroups), dist)
          IN  /\ model' = out.model
              /\ settings' = out.settings
              /\ margin' = dist
              /\ phase' = "done"
              /\ UNCHANGED <<tempFiles, objectGroups, packingObjects, packingResults,
                             packTrace>>
              /\ Written(WriteBambu(output, template, fault), dropsError)

DoCombineWithDistance ==
  /\ phase = "ready"
  /\ tempFiles # <<>>
  /\ \E dist \in Margins : FlatMerge("CombineWithDistance", dist, FALSE)

CallCombineWithDistance == DoCombineWithDistance /\ UNCHANGED planVars

\* Combiner.Combine: CombineWithDistance at distance 10; its error is dropped
\* and nil returned
DoCombine ==
  /\ phase = "ready"
  /\ tempFiles # <<>>
  /\ FlatMerge("threemf.Combine", DefaultPackingDistance, TRUE)

CallCombine == DoCombine /\ UNCHANGED planVars

\* the plate lists tried: all groups on one plate, or split in two at cut
PlateSplits(groups) ==
  { << [Objects |-> groups] >> } \cup
  { << [Objects |-> SubSeq(groups, 1, cut)],
       [Objects |-> SubSeq(groups, cut + 1, Len(groups))] >> :
      cut \in 1..(Len(groups) - 1) }

CallCombineWithPlateGroups ==
  /\ phase = "ready"
  /\ tempFiles # <<>>
  /\ \E plateGroups \in PlateSplits(objectGroups),
        algorithm \in PackingAlgorithms, plateWidth \in PlateWidths :
       /\ call' = [op |-> "CombineWithPlateGroups", algorithm |-> algorithm,
                   plateGroups |-> plateGroups, plateWidth |-> plateWidth]
       /\ IF ReadFails(tempFiles, fault)
          THEN ReadAborted(FALSE)
          ELSE \E out \in CombineWithPlateGroups(tempFiles, plateGroups,
                            DefaultPackingDistance, algorithm, plateWidth) :
                 /\ GroupedDone(out, DefaultPackingDistance)
                 /\ Written(WriteBambuWithPlates(output, template, fault), FALSE)
  /\ UNCHANGED planVars

\* combine.Combiner.Combine: with fewer than two files it returns an error
\* and writes nothing
DoCombineFiles ==
  /\ phase = "ready"
  /\ tempFiles # <<>>
  /\ IF Len(tempFiles) < 2
     THEN /\ call' = [op |-> "Combine", failed |-> TRUE]
          /\ outcome' = [returned |-> "error", failed |-> TRUE]
          /\ UNCHANGED <<model, settings, fault, template, output>>
     ELSE IF ReadFails(tempFiles, fault)
     THEN /\ call' = [op |-> "Combine", failed |-> TRUE]
          /\ outcome' = [returned |-> "error", failed |-> TRUE]
          /\ UNCHANGED <<model, settings, fault, template, output>>
     ELSE /\ call' = [op |-> "Combine", failed |-> FALSE]
          /\ model' = CombineFiles(tempFiles).model
          /\ settings' = CombineFiles(tempFiles).settings
          /\ Written(WriteModelBambu(output, template, fault), FALSE)
  /\ phase' = "done"
  /\ UNCHANGED <<tempFiles, objectGroups, margin, packingObjects, packingResults,
                 packTrace>>

CallCombineFiles == DoCombineFiles /\ UNCHANGED planVars

Next ==
  \/ CallCombineFiles
  \/ CallCombine
  \/ CallCombineWithObjectGroups
  \/ CallCombineWithGroupsAndDistance
  \/ CallCombineWithGroups
  \/ CallCombineWithDistance
  \/ CallCombineWithPlateGroups

\* every package holds one mesh object
Init == MergeInit(1..MaxParts, PartKinds, MaxParts, {{}})

Spec == Init /\ [][Next]_vars

\* the first package may hold a second object
LeanKinds == { k \in PartKinds : k.mesh # "wide" }

InitMulti == MergeInit(1..MaxParts, LeanKinds, MaxParts, {{}, {1}})

SpecMulti == InitMulti /\ [][Next]_vars

\* long part lists, in one group or two
InitLong == MergeInit({LongParts}, LongKinds, 1, {{}})

SpecLong == InitLong /\ [][Next]_vars

\* group names and normalize flags chosen independently: two groups of one
\* name may disagree on the flag
FlagKinds ==
  GroupKinds \cup { [name |-> <<"A">>, normalize |-> FALSE] }

InitFlags == MergeInitOf(1..MaxParts, LeanKinds, 1, {{}}, FlagKinds)

SpecFlags == InitFlags /\ [][Next]_vars

\* merges in an environment where one step may fail
CubeKinds == { k \in PartKinds : k.mesh = "cube" }

Templates ==
  { PlainTemplate,
    << Entry("3D/3dmodel.model", "mesh") >>,
    << Entry("[Content_Types].xml", "types"), Entry("3D/3dmodel.model", "mesh"),
       Entry("Metadata/model_settings.config", "old"),
       Entry("Metadata/project_settings.config", "project") >> }

Faults ==
  {NoFault}
  \cup { [kind |-> "read", at |-> i] : i \in 1..2 }
  \cup { [kind |-> k, at |-> 0] :
           k \in {"openSource", "createOutput", "modelEntry", "settingsEntry", "close"} }
  \cup { [kind |-> k, at |-> j] : k \in EntryFaults, j \in 1..4 }

InitIO ==
  /\ MergeInputs(1..2, CubeKinds, 1, {{}}, GroupKinds)
  /\ fault \in Faults
  /\ template \in Templates
  /\ plan = NoPlan
  /\ scratch = {}

SpecIO == InitIO /\ [][Next]_vars

\* ------------------------------------------------ the bounding box on its own
\* the vertices tried: a vertex is bad when one of its coordinates is not a
\* number (strconv.ParseFloat fails)
VertexChoices ==
  { [x |-> x, y |-> 1, z |-> z, bad |-> bad] :
      x \in {0, 7}, z \in {-2, 3}, bad \in BOOLEAN }

VertexLists ==
  UNION { [1..n -> VertexChoices] : n \in 0..MaxVertices }

InitBBox ==
  /\ phase = "ready"
  /\ call = [op |-> "none"]
  /\ margin = 0
  /\ packingObjects = <<>>
  /\ packingResults = <<>>
  /\ packTrace = NoTrace
  /\ \E vs \in VertexLists : tempFiles = << << SourceObject(vs) >> >>
  /\ objectGroups = <<>>
  /\ model = NoDocument
  /\ settings = NoDocument
  /\ fault = NoFault
  /\ template = <<>>
  /\ output = NoFile
  /\ outcome = NotReturned
  /\ plan = NoPlan
  /\ scratch = {}

CallCalculateBoundingBox ==
  /\ phase = "ready"
  /\ call' = [op |-> "CalculateBoundingBox",
              bbox |-> CalculateBoundingBox(tempFiles[1][1])]
  /\ phase' = "done"
  /\ UNCHANGED <<margin, packingObjects, packingResults, packTrace, mergeVars,
                 ioVars, planVars>>

SpecBBox == InitBBox /\ [][CallCalculateBoundingBox]_vars

\* -------------------------------------------------------------- build plans
\* A plan is the step list Planner.CreatePlan returns; BuildPlan.Execute runs
\* the steps in order and returns at the first error.  Scratch file i is
\* /tmp/scad_render_<i-1>.3mf (SCAD) or stl_converted_<i-1>.3mf (STL), and
\* tempFiles is what the rendering or conversion of the inputs yields.
PlanKinds == {"yaml", "objectGroups", "scad", "stl", "3mf"}

RenderedKinds == {"yaml", "objectGroups", "scad"}

ScratchOf(files) == { files[i] : i \in 1..Len(files) }

PlanReturned(result) == [plan EXCEPT !.pc = "returned", !.result = result]

\* the steps ahead of rendering or conversion: loading or parsing the
\* configuration, CheckPreconditionsStep and the Validate steps
StepsBeforeRender ==
  /\ plan.pc = "start"
  /\ plan' = IF fault.kind = "prepare" THEN PlanReturned("error")
             ELSE [plan EXCEPT !.pc = IF plan.kind \in RenderedKinds THEN "render"
                                      ELSE IF plan.kind = "stl" THEN "convert"
                                      ELSE "combine"]
  /\ UNCHANGED <<phase, call, margin, packingObjects, packingResults, packTrace,
                 mergeVars, ioVars, scratch>>

\* RenderSCADFilesStep with renderer.RenderMultipleSCAD: file after file is
\* rendered; on the first failure the list of files is dropped (nil is
\* returned) and the step fails.  The failing OpenSCAD run may or may not have
\* left its output file.
StepRenderSCADFiles ==
  /\ plan.pc = "render"
  /\ LET n == Len(tempFiles)
     IN  IF fault.kind = "render" /\ fault.at \in 1..n
         THEN /\ \E partial \in BOOLEAN :
                   scratch' = scratch \cup 1..(fault.at - 1)
                                      \cup (IF partial THEN {fault.at} ELSE {})
              /\ plan' = PlanReturned("error")
         ELSE /\ scratch' = scratch \cup 1..n
              /\ plan' = [plan EXCEPT !.pc = "combine",
                                      !.RenderedFiles = [i \in 1..n |-> i]]
  /\ UNCHANGED <<phase, call, margin, packingObjects, packingResults, packTrace,
                 mergeVars, ioVars>>

\* ConvertSTLTo3MFStep: every converted file is appended to RenderedFiles; the
\* step returns at the first conversion that fails
StepConvertSTLTo3MF ==
  /\ plan.pc = "convert"
  /\ LET n == Len(tempFiles)
     IN  IF fault.kind = "convert" /\ fault.at \in 1..n
         THEN /\ \E partial \in BOOLEAN :
                   scratch' = scratch \cup 1..(fault.at - 1)
                                      \cup (IF partial THEN {fault.at} ELSE {})
              /\ plan' = [PlanReturned("error") EXCEPT
                            !.RenderedFiles = [i \in 1..(fault.at - 1) |-> i]]
         ELSE /\ scratch' = scratch \cup 1..n
              /\ plan' = [plan EXCEPT !.pc = "combine",
                                      !.RenderedFiles = [i \in 1..n |-> i]]
  /\ UNCHANGED <<phase, call, margin, packingObjects, packingResults, packTrace,
                 mergeVars, ioVars>>

\* CombineWithGroupsStep: the deferred CleanupTempFiles removes the rendered
\* files whatever CombineWithGroups returns
StepCombineWithGroups ==
  /\ plan.pc = "combine"
  /\ plan.kind \in RenderedKinds
  /\ DoCombineWithGroups
  /\ scratch' = scratch \ ScratchOf(plan.RenderedFiles)
  /\ plan' = PlanReturned(outcome'.returned)

\* CombineConverted3MFFilesStep: the files are removed after Combine returned
\* nil; an error of Combine is returned ahead of the removal
StepCombineConverted3MFFiles ==
  /\ plan.pc = "combine"
  /\ plan.kind = "stl"
  /\ DoCombine
  /\ scratch' = IF outcome'.returned = "error" THEN scratch
                ELSE scratch \ ScratchOf(plan.RenderedFiles)
  /\ plan' = PlanReturned(outcome'.returned)

\* Combine3MFFilesStep: the user's packages are merged, no scratch file
StepCombine3MFFiles ==
  /\ plan.pc = "combine"
  /\ plan.kind = "3mf"
  /\ DoCombineFiles
  /\ scratch' = scratch
  /\ plan' = PlanReturned(outcome'.returned)

PlanNext ==
  \/ StepsBeforeRender
  \/ StepRenderSCADFiles
  \/ StepConvertSTLTo3MF
  \/ StepCombineWithGroups
  \/ StepCombineConverted3MFFiles
  \/ StepCombine3MFFiles

PlanFaults ==
  {NoFault, [kind |-> "prepare", at |-> 0], [kind |-> "createOutput", at |-> 0],
   [kind |-> "openEntry", at |-> 1]}
  \cup { [kind |-> k, at |-> i] : k \in {"render", "convert", "read"}, i \in 1..2 }

InitPlan ==
  /\ MergeInputs(1..2, CubeKinds, 1, {{}}, GroupKinds)
  /\ fault \in PlanFaults
  /\ template = PlainTemplate
  /\ \E kind \in PlanKinds :
       plan = [kind |-> kind, pc |-> "start", RenderedFiles |-> <<>>, result |-> "none"]
  /\ scratch = {}

SpecPlan == InitPlan /\ [][PlanNext]_vars

\* ----------------------------------------------------------- repeated runs
\* The grouped merge leaves two things to the Go runtime: the order in which
\* the normalization loop ranges over objectInfoMap, which changes from run
\* to run, and the order sort.Slice gives to footprints of equal key, which
\* is a function of the sorted slice fixed by the build.

\* the orders in which a range over a map of n entries may visit them
VisitOrders(n) ==
  { s \in [1..n -> 1..n] : \A i, j \in 1..n : i # j => s[i] # s[j] }

\* one iteration of the normalization loop, for one entry of objectInfoMap
NormalizeStep(allMeshObjects, info, meshMinZ, groups) ==
  IF ~NormalizePositionOf(groups, info.objectName) THEN allMeshObjects
  ELSE LET groupMinZ == GroupMinZ(info, meshMinZ)
       IN  IF groupMinZ = 0 THEN allMeshObjects
           ELSE [k \in 1..Len(allMeshObjects) |->
                   IF \E j \in 1..Len(info.meshIDs) : info.meshIDs[j] = k
                   THEN ApplyZOffset(allMeshObjects[k], -groupMinZ)
                   ELSE allMeshObjects[k]]

\* the normalization loop visiting the entries in the order visit
RECURSIVE NormalizeInOrder(_, _, _, _, _)
NormalizeInOrder(allMeshObjects, infos, meshMinZ, groups, visit) ==
  IF visit = <<>> THEN allMeshObjects
  ELSE NormalizeInOrder(NormalizeStep(allMeshObjects, infos[Head(visit)], meshMinZ, groups),
                        infos, meshMinZ, groups, Tail(visit))

\* the ways a build's sort may settle equal keys: by the rectangle ID,
\* ascending or descending
SortRules == {"ascending", "descending"}

\* a sort seeded anew by every process: the second run settles equal keys
\* the other way round
SortSliceReseeded(rule, runs) ==
  LET IDs(run) == [k \in 1..Len(run.results) |-> run.results[k].ID]
      ascending == (rule = "ascending") = (phase = "ready")
      Before(a, b) == IF ascending THEN LexLess(a, b) ELSE LexLess(b, a)
  IN  CHOOSE r \in runs :
        \A q \in runs : IDs(q) = IDs(r) \/ Before(IDs(r), IDs(q))

\* sort.Slice of one build: of the runs the sort's contract allows, the one
\* the build's rule selects; the same slice always gives the same run
SortSlice(rule, runs) ==
  LET IDs(run) == [k \in 1..Len(run.results) |-> run.results[k].ID]
      Before(a, b) == IF rule = "ascending" THEN LexLess(a, b) ELSE LexLess(b, a)
  IN  CHOOSE r \in runs :
        \A q \in runs : IDs(q) = IDs(r) \/ Before(IDs(r), IDs(q))

\* one run of combineWithGroupsAndDistanceInternal: the map visited in the
\* order visit, the sort settled by rule
MergeOnce(files, scadFiles, groups, dist, algorithm, rule, visit) ==
  LET ingested    == IngestMeshes(files, scadFiles)
      infos       == ObjectInfos(ingested, scadFiles)
      packingObjs == PackingObjects(infos)
      allMeshObjects ==
        NormalizeInOrder(ingested, infos, MeshMinZ(files, scadFiles), groups, visit)
      run == SortSlice(rule, RunPacker(packingObjs, dist, algorithm, DefaultBuildPlateWidth))
      e   == EmitLoop(EmitStart(Len(ingested) + 1), run.results, infos, groups, 0)
  IN  [model    |-> [Objects |-> allMeshObjects \o e.parentObjects,
                     Items   |-> e.buildItems],
       settings |-> WriteModelSettings(e.settingsGroups, e.buildItems),
       packingObjects |-> packingObjs,
       packingResults |-> run.results,
       packTrace |-> [shelves |-> run.shelves, fallbacks |-> run.fallbacks]]

\* the number of entries of objectInfoMap for the supplied groups
InfoCount == Len(ObjectOrder(FlattenGroups(objectGroups), {}))

\* the first run of CombineWithObjectGroups
RunFirst ==
  /\ phase = "ready"
  /\ tempFiles # <<>>
  /\ \E dist \in Margins, algorithm \in PackingAlgorithms, rule \in SortRules,
        visit \in VisitOrders(InfoCount) :
       /\ call' = [op |-> "CombineWithObjectGroups", algorithm |-> algorithm,
                   rule |-> rule, visit |-> visit]
       /\ GroupedDone(MergeOnce(tempFiles, FlattenGroups(objectGroups), objectGroups,
                                dist, algorithm, rule, visit), dist)
       /\ Written(WriteBambu(output, template, fault), FALSE)
  /\ UNCHANGED planVars

\* the same call again: the same packages, groups, margin, algorithm and
\* build, the map visited in whatever order the runtime takes this time
RunAgain ==
  /\ phase = "done"
  /\ call.op = "CombineWithObjectGroups"
  /\ \E visit \in VisitOrders(InfoCount) :
       /\ call' = [call EXCEPT !.op = "CombineWithObjectGroups again",
                               !.visit = visit] @@
                  [first |-> model, firstVisit |-> call.visit]
       /\ GroupedDone(MergeOnce(tempFiles, FlattenGroups(objectGroups), objectGroups,
                                margin, call.algorithm, call.rule, visit), margin)
       /\ Written(WriteBambu(output, template, fault), FALSE)
  /\ UNCHANGED planVars

TwiceNext == RunFirst \/ RunAgain

TwiceKinds == GroupKinds \cup {[name |-> <<"C">>, normalize |-> TRUE]}

InitTwice == MergeInitOf(1..MaxParts, LeanKinds, 1, {{}}, TwiceKinds)

SpecTwice == InitTwice /\ [][TwiceNext]_vars

\* ------------------------------------------------------- transform strings
\* Strings are sequences of one-character tokens. A translation is given in
\* thousandths of a millimetre, so that rounding to two decimals is visible.

Digit(d) == <<"0", "1", "2", "3", "4", "5", "6", "7", "8", "9">>[d + 1]

RECURSIVE Pow10(_)
Pow10(k) == IF k = 0 THEN 1 ELSE 10 * Pow10(k - 1)

RECURSIVE Digits(_)
Digits(n) == IF n < 10 THEN <<Digit(n)>> ELSE Digits(n \div 10) \o <<Digit(n % 10)>>

\* the last k decimal digits of n, zero padded
RECURSIVE Decimals(_, _)
Decimals(n, k) ==
  IF k = 0 THEN <<>> ELSE Decimals(n \div 10, k - 1) \o <<Digit(n % 10)>>

\* the text of n / 10^k with k decimals, with a minus sign if neg
FormatFixed(neg, n, k) ==
  (IF neg THEN <<"-">> ELSE <<>>)
    \o Digits(n \div Pow10(k)) \o <<".">> \o Decimals(n % Pow10(k), k)

\* the hundredths of a magnitude with the third decimal cut off
Truncated(a) == {a \div 10}

\* the hundredths a magnitude in thousandths may round to: the nearest; a
\* tie that a float64 holds exactly (.125, .375, .625, .875) goes to the even
\* neighbour, any other tie goes where the float64 nearest to it lies
Rounded(a) ==
  LET down == a \div 10
  IN  IF a % 10 < 5 THEN {down}
      ELSE IF a % 10 > 5 THEN {down + 1}
      ELSE IF a % 1000 \in {125, 375, 625, 875}
           THEN {IF down % 2 = 0 THEN down ELSE down + 1}
           ELSE {down, down + 1}

\* fmt.Sprintf("%.2f", v) for v thousandths: the sign is printed even when
\* the value rounds to zero
SprintfTwoDecimals(v) ==
  { FormatFixed(v < 0, h, 2) : h \in Rounded(IF v < 0 THEN -v ELSE v) }

\* fmt.Sprintf("%.8f", e) for a matrix entry e in {-1, 0, 1}
SprintfEightDecimals(e) ==
  FormatFixed(e < 0, (IF e < 0 THEN -e ELSE e) * Pow10(8), 8)

RECURSIVE JoinFields(_)
JoinFields(fields) ==
  IF Len(fields) = 1 THEN fields[1]
  ELSE fields[1] \o <<" ">> \o JoinFields(Tail(fields))

\* the texts of the three translation terms
TranslationTexts(tx, ty, tz) ==
  { <<x, y, z>> : x \in SprintfTwoDecimals(tx), y \in SprintfTwoDecimals(ty),
                  z \in SprintfTwoDecimals(tz) }

\* geometry.BuildTranslationTransform as text
BuildTranslationTransformText(tx, ty, tz) ==
  { JoinFields(<< <<"1">>, <<"0">>, <<"0">>, <<"0">>, <<"1">>, <<"0">>,
                  <<"0">>, <<"0">>, <<"1">> >> \o t) :
      t \in TranslationTexts(tx, ty, tz) }

\* cosine and sine of a multiple of 90 degrees
Cos90(a) == CASE a % 360 = 0 -> 1 [] a % 360 = 180 -> -1 [] OTHER -> 0

Sin90(a) == CASE a % 360 = 90 -> 1 [] a % 360 = 270 -> -1 [] OTHER -> 0

\* geometry.BuildRotationTransform for rotations that are multiples of 90
\* degrees
BuildRotationTransform(rotX, rotY, rotZ, tx, ty, tz) ==
  LET cosX == Cos90(rotX)
      sinX == Sin90(rotX)
      cosY == Cos90(rotY)
      sinY == Sin90(rotY)
      cosZ == Cos90(rotZ)
      sinZ == Sin90(rotZ)
      m == << cosY * cosZ, cosY * sinZ, -sinY,
              sinX * sinY * cosZ - cosX * sinZ, sinX * sinY * sinZ + cosX * cosZ,
              sinX * cosY,
              cosX * sinY * cosZ + sinX * sinZ, cosX * sinY * sinZ - sinX * cosZ,
              cosX * cosY >>
  IN  { JoinFields([i \in 1..9 |-> SprintfEightDecimals(m[i])] \o t) :
          t \in TranslationTexts(tx, ty, tz) }

\* strings.Fields: the maximal runs of characters other than the space
Fields(str) ==
  LET starts == { i \in 1..Len(str) : str[i] # " " /\ (i = 1 \/ str[i - 1] = " ") }
      EndOf(i) == CHOOSE j \in i..Len(str) :
                    /\ \A k \in i..j : str[k] # " "
                    /\ (j = Len(str) \/ str[j + 1] = " ")
      Start(n) == CHOOSE i \in starts : Cardinality({ j \in starts : j <= i }) = n
  IN  [n \in 1..Cardinality(starts) |-> SubSeq(str, Start(n), EndOf(Start(n)))]

DigitValue(c) == CHOOSE d \in 0..9 : Digit(d) = c

IsDigit(c) == \E d \in 0..9 : Digit(d) = c

RECURSIVE Number(_)
Number(digits) ==
  IF digits = <<>> THEN 0
  ELSE 10 * Number(SubSeq(digits, 1, Len(digits) - 1)) + DigitValue(digits[Len(digits)])

\* strconv.ParseFloat on plain decimal text: an optional sign, digits, and
\* an optional point followed by digits; the value is neg, num / 10^scale
ParseFloat(text) ==
  LET neg    == text # <<>> /\ Head(text) = "-"
      signed == text # <<>> /\ Head(text) \in {"-", "+"}
      body   == IF signed THEN Tail(text) ELSE text
      points == { i \in 1..Len(body) : body[i] = "." }
      whole  == IF points = {} THEN body
                ELSE SubSeq(body, 1, (CHOOSE i \in points : TRUE) - 1)
      frac   == IF points = {} THEN <<>>
                ELSE SubSeq(body, (CHOOSE i \in points : TRUE) + 1, Len(body))
      wellFormed ==
        /\ Cardinality(points) <= 1
        /\ whole \o frac # <<>>
        /\ \A i \in 1..Len(whole) : IsDigit(whole[i])
        /\ \A i \in 1..Len(frac) : IsDigit(frac[i])
  IN  IF wellFormed
      THEN [err |-> FALSE, neg |-> neg, num |-> Number(whole \o frac), scale |-> Len(frac)]
      ELSE [err |-> TRUE, neg |-> FALSE, num |-> 0, scale |-> 0]

\* inspect.ParseTransformOffset
ParseTransformOffset(transform) ==
  LET parts == Fields(transform)
      none  == [err |-> TRUE, neg |-> FALSE, num |-> 0, scale |-> 0]
  IN  IF Len(parts) # 12 THEN [ok |-> FALSE, x |-> none, y |-> none, z |-> none]
      ELSE LET x == ParseFloat(parts[10])
               y == ParseFloat(parts[11])
               z == ParseFloat(parts[12])
           IN  IF x.err \/ y.err \/ z.err
               THEN [ok |-> FALSE, x |-> none, y |-> none, z |-> none]
               ELSE [ok |-> TRUE, x |-> x, y |-> y, z |-> z]

\* translations tried, in thousandths: whole and fractional values, ties of
\* both kinds, a carry into the next digit, negative values that round to zero
Offsets == {0, 5, 125, -4, 10500, -20756, 99995}

Rotations == { <<0, 0, 0>>, <<90, 0, 0>>, <<0, 180, 0>>, <<0, 0, 270>>, <<90, 90, 180>> }

InitTransform ==
  /\ phase = "ready"
  /\ \E tx \in Offsets, ty \in Offsets, tz \in Offsets, rot \in Rotations :
       call = [op |-> "none", tx |-> tx, ty |-> ty, tz |-> tz, rot |-> rot]
  /\ margin = 0
  /\ packingObjects = <<>>
  /\ packingResults = <<>>
  /\ packTrace = NoTrace
  /\ tempFiles = <<>>
  /\ objectGroups = <<>>
  /\ model = NoDocument
  /\ settings = NoDocument
  /\ fault = NoFault
  /\ template = <<>>
  /\ output = NoFile
  /\ outcome = NotReturned
  /\ plan = NoPlan
  /\ scratch = {}

\* the transform is built and its offset parsed back
Transformed(op, transform) ==
  /\ call' = [op |-> op, tx |-> call.tx, ty |-> call.ty, tz |-> call.tz,
              rot |-> call.rot, transform |-> transform,
              offset |-> ParseTransformOffset(transform)]
  /\ phase' = "done"
  /\ UNCHANGED <<margin, packingObjects, packingResults, packTrace, mergeVars,
                 ioVars, planVars>>

CallBuildTranslationTransform ==
  /\ phase = "ready"
  /\ \E transform \in BuildTranslationTransformText(call.tx, call.ty, call.tz) :
       Transformed("BuildTranslationTransform", transform)

CallBuildRotationTransform ==
  /\ phase = "ready"
  /\ \E transform \in BuildRotationTransform(call.rot[1], call.rot[2], call.rot[3],
                                             call.tx, call.ty, call.tz) :
       Transformed("BuildRotationTransform", transform)

TransformNext == CallBuildTranslationTransform \/ CallBuildRotationTransform

SpecTransform == InitTransform /\ [][TransformNext]_vars

\* ------------------------------------------------------------ configuration
\* models.YamlPart; the position and rotation fields are not read here
YamlPart(name, file, filament, config) ==
  [Name |-> name, File |-> file, Filament |-> filament, Config |-> config]

\* models.YamlObject
YamlObject(name, parts, config) == [Name |-> name, Parts |-> parts, Config |-> config]

\* models.YamlConfig
YamlConfig(out, objects, plates) ==
  [Output |-> out, Objects |-> objects, Plates |-> plates]

\* the files os.Stat finds
ExistingFiles == {"a.scad"}

\* a validation that checks the filament value from below only
ValidateObjectNoUpperBound(obj) ==
  IF obj.Name = "" THEN "name is required"
  ELSE IF Len(obj.Parts) = 0 THEN "at least one part must be defined"
  ELSE LET PartError(part) ==
             IF part.Name = "" THEN "part name is required"
             ELSE IF part.File = "" THEN "file is required"
             ELSE IF part.File \notin ExistingFiles THEN "file not found"
             ELSE IF part.Filament < 0 THEN "filament must be 0-4"
             ELSE "nil"
           bad == { j \in 1..Len(obj.Parts) : PartError(obj.Parts[j]) # "nil" }
       IN  IF bad = {} THEN "nil"
           ELSE PartError(obj.Parts[CHOOSE j \in bad : \A k \in bad : j <= k])

\* Loader.validateObject: the first error, or "nil"
ValidateObject(obj) ==
  IF obj.Name = "" THEN "name is required"
  ELSE IF Len(obj.Parts) = 0 THEN "at least one part must be defined"
  ELSE LET PartError(part) ==
             IF part.Name = "" THEN "part name is required"
             ELSE IF part.File = "" THEN "file is required"
             ELSE IF part.File \notin ExistingFiles THEN "file not found"
             ELSE IF part.Filament < 0 \/ part.Filament > 4 THEN "filament must be 0-4"
             ELSE "nil"
           bad == { j \in 1..Len(obj.Parts) : PartError(obj.Parts[j]) # "nil" }
       IN  IF bad = {} THEN "nil"
           ELSE PartError(obj.Parts[CHOOSE j \in bad : \A k \in bad : j <= k])

\* the first error among the objects of a list, or "nil"
ValidateObjects(objects) ==
  LET bad == { i \in 1..Len(objects) : ValidateObject(objects[i]) # "nil" }
  IN  IF bad = {} THEN "nil"
      ELSE ValidateObject(objects[CHOOSE i \in bad : \A k \in bad : i <= k])

\* Loader.Validate: the first error, or "nil"
Validate(config) ==
  IF config.Output = "" THEN "output file must be specified"
  ELSE IF Len(config.Objects) = 0 /\ Len(config.Plates) = 0
       THEN "at least one object or plate must be defined"
  ELSE IF Len(config.Objects) > 0 /\ Len(config.Plates) > 0
       THEN "cannot mix objects and plates"
  ELSE IF Len(config.Plates) > 0
       THEN LET PlateError(plate) ==
                  IF Len(plate.Objects) = 0 THEN "plate: at least one object must be defined"
                  ELSE ValidateObjects(plate.Objects)
                bad == { p \in 1..Len(config.Plates) : PlateError(config.Plates[p]) # "nil" }
            IN  IF bad = {} THEN "nil"
                ELSE PlateError(config.Plates[CHOOSE p \in bad : \A k \in bad : p <= k])
  ELSE ValidateObjects(config.Objects)

\* Loader.ConvertToObjectGroups for objects without count and without config
\* files: the parts keep their filament value
GroupsOfObjects(objects) ==
  [i \in 1..Len(objects) |->
     [ID |-> 0, Name |-> objects[i].Name, NormalizePosition |-> TRUE,
      Parts |-> [j \in 1..Len(objects[i].Parts) |->
                   ScadFile(CompositeName(<<objects[i].Name>>, <<objects[i].Parts[j].Name>>,
                                          Len(objects[i].Parts)),
                            objects[i].Parts[j].Filament, <<0, 0, 0>>, <<0, 0, 0>>)]]]

\* the objects of every plate, in order
RECURSIVE PlateYamlObjects(_)
PlateYamlObjects(plates) ==
  IF plates = <<>> THEN <<>>
  ELSE Head(plates).Objects \o PlateYamlObjects(Tail(plates))

\* the groups the build hands to the merge: those of the plates if plates
\* are defined, those of the objects otherwise
GroupsToMerge(config) ==
  IF Len(config.Plates) > 0 THEN GroupsOfObjects(PlateYamlObjects(config.Plates))
  ELSE GroupsOfObjects(config.Objects)

GoodPart == YamlPart("p", "a.scad", 0, <<>>)

PartChoices ==
  { GoodPart, YamlPart("q", "a.scad", 4, <<>>), YamlPart("", "a.scad", 1, <<>>),
    YamlPart("p", "", 1, <<>>), YamlPart("p", "gone.scad", 1, <<>>),
    YamlPart("p", "a.scad", -1, <<>>), YamlPart("p", "a.scad", 5, <<>>) }

ObjectChoices ==
  { YamlObject(name, parts, <<>>) :
      name \in {"", "A"},
      parts \in {<<>>} \cup { <<p>> : p \in PartChoices }
                 \cup { <<GoodPart, p>> : p \in PartChoices } }

GoodObject == YamlObject("B", <<GoodPart>>, <<>>)

ObjectLists ==
  {<<>>} \cup { <<o>> : o \in ObjectChoices } \cup { <<GoodObject, o>> : o \in ObjectChoices }

PlateLists ==
  {<<>>} \cup { <<[Objects |-> objs]>> : objs \in ObjectLists }
         \cup { <<[Objects |-> <<GoodObject>>], [Objects |-> objs]>> : objs \in ObjectLists }

Configs ==
  { YamlConfig(out, objects, <<>>) : out \in {"", "out.3mf"}, objects \in ObjectLists }
    \cup
  { YamlConfig(out, objects, plates) :
      out \in {"", "out.3mf"}, objects \in {<<>>, <<GoodObject>>}, plates \in PlateLists }

\* nothing but a configuration: call.config is the parsed YAML document
ConfigInit(configs) ==
  /\ phase = "ready"
  /\ \E config \in configs : call = [op |-> "none", config |-> config]
  /\ margin = 0
  /\ packingObjects = <<>>
  /\ packingResults = <<>>
  /\ packTrace = NoTrace
  /\ tempFiles = <<>>
  /\ objectGroups = <<>>
  /\ model = NoDocument
  /\ settings = NoDocument
  /\ fault = NoFault
  /\ template = <<>>
  /\ output = NoFile
  /\ outcome = NotReturned
  /\ plan = NoPlan
  /\ scratch = {}

InitValidate == ConfigInit(Configs)

CallValidate ==
  /\ phase = "ready"
  /\ call' = [op |-> "Validate", config |-> call.config, err |-> Validate(call.config)]
  /\ phase' = "done"
  /\ UNCHANGED <<margin, packingObjects, packingResults, packTrace, mergeVars,
                 ioVars, planVars>>

\* Loader.Load and the build that follows it: a configuration Validate
\* rejects is not returned; one it accepts is converted and handed to the merge
CallLoad ==
  /\ phase = "ready"
  /\ LET err == Validate(call.config)
     IN  /\ call' = [op |-> "Load", config |-> call.config, err |-> err]
         /\ objectGroups' = IF err = "nil" THEN GroupsToMerge(call.config) ELSE objectGroups
  /\ phase' = "done"
  /\ UNCHANGED <<margin, packingObjects, packingResults, packTrace, tempFiles, model,
                 settings, ioVars, planVars>>

ValidateNext == CallValidate \/ CallLoad

SpecValidate == InitValidate /\ [][ValidateNext]_vars

\* ------------------------------------------------------------ config files
\* A config entry of the YAML document is a map from file names to contents;
\* a content is text (old format) or a map from keys to values (new format).
TextContent(text) == [kind |-> "string", text |-> text, values |-> << >>]

MapContent(values) == [kind |-> "map", text |-> "", values |-> values]

\* the orders in which a range over a map with the keys may visit them
KeyOrders(keys) ==
  { s \in [1..Cardinality(keys) -> keys] :
      \A i, j \in 1..Cardinality(keys) : i # j => s[i] # s[j] }

\* convertMapToScadFunctions: one line per key, in the order the range over
\* the map visits the keys; a text is the sequence of its lines
ConvertMapToScadFunctions(values) ==
  { [i \in 1..Len(order) |-> <<"function get_", order[i], "() = ", values[order[i]], ";">>] :
      order \in KeyOrders(DOMAIN values) }

\* convertConfigContent: the texts a content may be converted to
ConvertConfigContent(content) ==
  IF content.kind = "string" THEN { << <<content.text>> >> }
  ELSE ConvertMapToScadFunctions(content.values)

\* the assignments configFiles[filename] = content of the loops over a list
\* of config maps, in list order; files maps the names assigned so far
RECURSIVE AssignConfigs(_, _)
AssignConfigs(files, configMaps) ==
  IF configMaps = <<>> THEN files
  ELSE LET configMap == Head(configMaps)
       IN  AssignConfigs([n \in DOMAIN files \cup DOMAIN configMap |->
                            IF n \in DOMAIN configMap THEN configMap[n] ELSE files[n]],
                         Tail(configMaps))

\* the texts a map of contents may be converted to, file by file
ConvertedFiles(files) ==
  { cf \in [DOMAIN files -> UNION { ConvertConfigContent(files[n]) : n \in DOMAIN files }] :
      \A n \in DOMAIN files : cf[n] \in ConvertConfigContent(files[n]) }

\* a merge of the config files in which the object's entries are assigned last
ConfigFilesObjectLast(obj, part) ==
  ConvertedFiles(AssignConfigs(AssignConfigs(<< >>, part.Config), obj.Config))

\* configFiles of one part: the object's entries, then the part's entries
\* over them (the content is converted when it is assigned; converting the
\* surviving contents gives the same texts)
ConfigFilesOf(obj, part) ==
  ConvertedFiles(AssignConfigs(AssignConfigs(<< >>, obj.Config), part.Config))

\* the (object, part) pairs in the order ConvertToScadFiles visits them; no
\* object has a count
RECURSIVE PartsInOrder(_)
PartsInOrder(objects) ==
  IF objects = <<>> THEN <<>>
  ELSE [j \in 1..Len(Head(objects).Parts) |->
          [obj |-> Head(objects), part |-> Head(objects).Parts[j]]]
       \o PartsInOrder(Tail(objects))

\* Loader.ConvertToScadFiles: the lists it may return
ConvertToScadFiles(config) ==
  LET pairs == PartsInOrder(config.Objects)
      all   == UNION { ConfigFilesOf(pairs[k].obj, pairs[k].part) : k \in 1..Len(pairs) }
  IN  { [k \in 1..Len(pairs) |->
           [Path |-> pairs[k].part.File,
            Name |-> CompositeName(<<pairs[k].obj.Name>>, <<pairs[k].part.Name>>,
                                   Len(pairs[k].obj.Parts)),
            FilamentSlot |-> pairs[k].part.Filament,
            ConfigFiles |-> cf[k]]] :
        cf \in { c \in [1..Len(pairs) -> all] :
                   \A k \in 1..Len(pairs) :
                     c[k] \in ConfigFilesOf(pairs[k].obj, pairs[k].part) } }

ConfigChoices ==
  { <<>>,
    << [n \in {"cfg.scad"} |-> MapContent([k \in {"h"} |-> 10])] >>,
    << [n \in {"cfg.scad"} |-> MapContent([k \in {"h", "w"} |-> IF k = "h" THEN 6 ELSE 38])] >>,
    << [n \in {"cfg.scad", "lib.scad"} |->
          IF n = "cfg.scad" THEN TextContent("h = 3;") ELSE MapContent([k \in {"d"} |-> 2])] >>,
    << [n \in {"cfg.scad"} |-> MapContent([k \in {"h"} |-> 10])],
       [n \in {"cfg.scad"} |-> MapContent([k \in {"h"} |-> 12])] >> }

ConfiguredParts == { YamlPart(name, "a.scad", 0, config) : name \in {"p"}, config \in ConfigChoices }

ConfiguredObjects ==
  { YamlObject("A", parts, config) :
      parts \in { <<p>> : p \in ConfiguredParts }
                 \cup { <<GoodPart, p>> : p \in ConfiguredParts },
      config \in ConfigChoices }

ConvertConfigs ==
  { YamlConfig("out.3mf", objects, <<>>) :
      objects \in { <<o>> : o \in ConfiguredObjects }
                   \cup { <<GoodObject, o>> : o \in ConfiguredObjects } }

InitConvert == ConfigInit(ConvertConfigs)

CallConvertToScadFiles ==
  /\ phase = "ready"
  /\ \E scadFiles \in ConvertToScadFiles(call.config) :
       call' = [op |-> "ConvertToScadFiles", config |-> call.config, scadFiles |-> scadFiles]
  /\ phase' = "done"
  /\ UNCHANGED <<margin, packingObjects, packingResults, packTrace, mergeVars,
                 ioVars, planVars>>

SpecConvert == InitConvert /\ [][CallConvertToScadFiles]_vars

\* ------------------------------------------------- meshes without a box
\* grouped merges of two or three parts, some of them with a mesh whose
\* first vertex does not parse: CalculateBoundingBox fails on it
SkipKinds ==
  { [mesh |-> "cube", slot |-> 0, pos |-> <<0, 0, 0>>, rot |-> <<0, 0, 0>>],
    [mesh |-> "tall", slot |-> 0, pos |-> <<5, 0, 2>>, rot |-> <<0, 0, 0>>],
    [mesh |-> "broken", slot |-> 0, pos |-> <<0, 0, 0>>, rot |-> <<0, 0, 0>>] }

InitSkip == MergeInit({2, 3}, SkipKinds, 1, {{}})

SkipNext == CallCombineWithObjectGroups \/ CallCombineWithGroupsAndDistance

SpecSkip == InitSkip /\ [][SkipNext]_vars

\* ------------------------------------------------------- plates of blocks
\* multi-plate merges of up to LongParts single-part groups, each a cube or a
\* block of 100 x 100 mm; two blocks with the margin between them are wider
\* than the narrow plate
BlockKinds ==
  { [mesh |-> "cube", slot |-> 0, pos |-> <<0, 0, 0>>, rot |-> <<0, 0, 0>>],
    [mesh |-> "block", slot |-> 0, pos |-> <<0, 0, 0>>, rot |-> <<0, 0, 0>>] }

\* one group per part, every group under a name of its own
SoloName(g) == [i \in 1..g |-> "A"]

InitPlates ==
  /\ phase = "ready"
  /\ call = [op |-> "none"]
  /\ margin = 0
  /\ packingObjects = <<>>
  /\ packingResults = <<>>
  /\ packTrace = NoTrace
  /\ \E n \in 1..LongParts :
       \E pk \in [1..n -> BlockKinds] :
         /\ objectGroups = GroupsOf(n, pk, 1..(n - 1),
                                    [g \in 1..n |-> [name |-> SoloName(g),
                                                      normalize |-> TRUE]])
         /\ tempFiles = FilesOf(n, pk, {})
  /\ model = NoDocument
  /\ settings = NoDocument
  /\ output = NoFile
  /\ outcome = NotReturned
  /\ fault = NoFault
  /\ template = PlainTemplate
  /\ plan = NoPlan
  /\ scratch = {}

SpecPlates == InitPlates /\ [][CallCombineWithPlateGroups]_vars

\* ------------------------------------------------------- two plans at once
\* Two invocations of the program, each running one plan of the SCAD or the
\* STL kind.  Here plan is a pair of plans and scratch holds, for every
\* scratch file that exists, its name (kind and index) and the plan that
\* wrote it last; call.overlapped records that both plans have been in
\* flight at the same moment.
Plans == {1, 2}

InFlight(p) == plan[p].pc \in {"render", "combine", "cleanup"}

ScratchFile(kind, i, writer) == [kind |-> kind, i |-> i, writer |-> writer]

\* the scratch files of the names kind_<i>, i in indices
Named(files, kind, indices) == { f \in files : f.kind = kind /\ f.i \in indices }

\* a write that leaves a file that is already there alone
WriteScratchIfAbsent(files, kind, i, p) ==
  IF Named(files, kind, {i}) # {} THEN files
  ELSE files \cup {ScratchFile(kind, i, p)}

\* OpenSCAD or the STL converter writes scratch file i of its kind: the name
\* depends on the kind and the index only, an existing file is replaced
WriteScratch(files, kind, i, p) ==
  (files \ Named(files, kind, {i})) \cup {ScratchFile(kind, i, p)}

IdlePlan(kind, n) ==
  [kind |-> kind, pc |-> "idle", files |-> n, next |-> 1, RenderedFiles |-> <<>>,
   read |-> {}, missing |-> FALSE, removed |-> {}, result |-> "none"]

InitTwoPlans ==
  /\ MergeInputs({1}, CubeKinds, 0, {{}}, GroupKinds)
  /\ fault = NoFault
  /\ template = PlainTemplate
  /\ \E kinds \in [Plans -> {"scad", "stl"}], n \in [Plans -> 1..2] :
       plan = [p \in Plans |-> IdlePlan(kinds[p], n[p])]
  /\ scratch = {}

\* what a step of one plan leaves alone
OnlyPlans ==
  UNCHANGED <<phase, margin, packingObjects, packingResults, packTrace, mergeVars, ioVars>>

\* the program is started: the steps ahead of rendering pass
PlanStart(p) ==
  /\ plan[p].pc = "idle"
  /\ plan' = [plan EXCEPT ![p].pc = "render"]
  /\ call' = [op |-> "plans",
              overlapped |-> ("overlapped" \in DOMAIN call /\ call.overlapped)
                               \/ \E q \in Plans \ {p} : InFlight(q)]
  /\ scratch' = scratch
  /\ OnlyPlans

\* one file is rendered (RenderMultipleSCAD) or converted
\* (ConvertSTLTo3MFStep); after the last one the step returns nil.  A failure
\* ends the plan; the failing run may or may not have left its file.
PlanRenderFile(p) ==
  /\ plan[p].pc = "render"
  /\ LET i == plan[p].next
     IN  \/ /\ scratch' = WriteScratch(scratch, plan[p].kind, i, p)
            /\ plan' = [plan EXCEPT
                 ![p].next = i + 1,
                 ![p].RenderedFiles = Append(@, i),
                 ![p].pc = IF i = plan[p].files THEN "combine" ELSE "render"]
         \/ /\ \E partial \in BOOLEAN :
                 scratch' = IF partial THEN WriteScratch(scratch, plan[p].kind, i, p)
                            ELSE scratch
            /\ plan' = [plan EXCEPT ![p].pc = "returned", ![p].result = "error"]
  /\ call' = call
  /\ OnlyPlans

\* the combine step opens the files named in RenderedFiles; an error of the
\* merge is dropped by Combine and CombineWithGroups
PlanCombine(p) ==
  /\ plan[p].pc = "combine"
  /\ LET names == ScratchOf(plan[p].RenderedFiles)
         found == Named(scratch, plan[p].kind, names)
     IN  plan' = [plan EXCEPT
           ![p].read = { f.writer : f \in found },
           ![p].missing = \E i \in names : Named(scratch, plan[p].kind, {i}) = {},
           ![p].pc = "cleanup"]
  /\ call' = call
  /\ scratch' = scratch
  /\ OnlyPlans

\* CleanupTempFiles, or the removal loop of CombineConverted3MFFilesStep:
\* the files named in RenderedFiles are removed and the plan returns
PlanCleanup(p) ==
  /\ plan[p].pc = "cleanup"
  /\ LET gone == Named(scratch, plan[p].kind, ScratchOf(plan[p].RenderedFiles))
     IN  /\ scratch' = scratch \ gone
         /\ plan' = [plan EXCEPT ![p].removed = { f.writer : f \in gone },
                                 ![p].pc = "returned", ![p].result = "nil"]
  /\ call' = call
  /\ OnlyPlans

TwoPlansNext ==
  \E p \in Plans : PlanStart(p) \/ PlanRenderFile(p) \/ PlanCombine(p) \/ PlanCleanup(p)

SpecTwoPlans == InitTwoPlans /\ [][TwoPlansNext]_vars

\* ------------------------------------------------------ BuildPlan.Execute
\* Execute over any list of steps.  A step is what its Execute returns: nil,
\* or an error, which is named after the step's position so that the errors
\* of different steps differ.  plan.pc is the index of the range loop,
\* plan.executed the steps whose Execute has been called, in call order.
MaxSteps == 5

NilError == 0

StepLists == UNION { [1..n -> BOOLEAN] : n \in 0..MaxSteps }

\* what step.Execute() of step i returns
StepExecute(steps, i) == IF steps[i] THEN i ELSE NilError

\* a loop that drops the error of a step and goes on to the next step
AfterStepKeepGoing(p, err) ==
  [p EXCEPT !.executed = Append(@, p.pc), !.pc = p.pc + 1]

\* the body of the range loop for the step at p.pc, which returned err
AfterStep(p, err) ==
  IF err # NilError
  THEN [p EXCEPT !.executed = Append(@, p.pc),
                 !.result = [returned |-> TRUE, err |-> err]]
  ELSE [p EXCEPT !.executed = Append(@, p.pc), !.pc = p.pc + 1]

InitExecute ==
  /\ MergeInputs({1}, CubeKinds, 0, {{}}, {[name |-> <<"A">>, normalize |-> TRUE]})
  /\ fault = NoFault
  /\ template = PlainTemplate
  /\ \E steps \in StepLists :
       plan = [kind |-> "steps", Steps |-> steps, pc |-> 1, executed |-> <<>>,
               result |-> [returned |-> FALSE, err |-> NilError]]
  /\ scratch = {}

\* one iteration of the loop: the next step is executed
ExecuteStep ==
  /\ ~plan.result.returned
  /\ plan.pc <= Len(plan.Steps)
  /\ plan' = AfterStep(plan, StepExecute(plan.Steps, plan.pc))
  /\ UNCHANGED <<phase, call, margin, packingObjects, packingResults, packTrace,
                 mergeVars, ioVars, scratch>>

\* the loop is over: Execute returns nil
ExecuteReturn ==
  /\ ~plan.result.returned
  /\ plan.pc > Len(plan.Steps)
  /\ plan' = [plan EXCEPT !.result = [returned |-> TRUE, err |-> NilError]]
  /\ UNCHANGED <<phase, call, margin, packingObjects, packingResults, packTrace,
                 mergeVars, ioVars, scratch>>

ExecuteNext == ExecuteStep \/ ExecuteReturn

SpecExecute == InitExecute /\ [][ExecuteNext]_vars /\ WF_vars(ExecuteNext)

\* ------------------------------------------------------------------ claims
ShelfRun == phase = "done" /\ call.op \in {"PackOptimal", "Pack"}

PackerRun == phase = "done" /\ call.op \in {"PackOptimal", "Pack", "PackCompact"}

ResultIdx == 1..Len(packingResults)

C10_OnePlacementPerInput ==
  PackerRun =>
    /\ Len(packingResults) = Len(packingObjects)
    /\ \A i \in 1..Len(packingObjects) :
         LET hits == { k \in ResultIdx : packingResults[k].ID = packingObjects[i].ID }
         IN  /\ Cardinality(hits) = 1
             /\ \A k \in hits :
                  /\ packingResults[k].Width = packingObjects[i].Width
                  /\ packingResults[k].Height = packingObjects[i].Height
                  /\ packingResults[k].Fits

\* a guillotine run that needed a fallback row
C10_Witness ==
  /\ phase = "done"
  /\ call.op = "PackCompact"
  /\ packTrace.fallbacks > 0
  /\ Len(packingResults) = MaxRects

\* ------------------------------------------------------------- merge claims
GroupedOps ==
  {"CombineWithObjectGroups", "CombineWithGroupsAndDistance", "CombineWithGroups"}

GroupedRun == phase = "done" /\ call.op \in GroupedOps

MergeRun ==
  phase = "done" /\
  call.op \in GroupedOps \cup
              {"CombineWithDistance", "threemf.Combine", "CombineWithPlateGroups",
               "Combine"}

\* the parts in ingestion order, as the caller supplied them
SuppliedParts == FlattenGroups(objectGroups)

ObjIdx == 1..Len(model.Objects)

MeshIdx == { k \in ObjIdx : model.Objects[k].HasMesh }

ParentIdx == ObjIdx \ MeshIdx

ObjectIDs == { model.Objects[k].ID : k \in ObjIdx }

ComponentIDs(k) ==
  { model.Objects[k].Components[c].ObjectID : c \in 1..Len(model.Objects[k].Components) }

\* the part entries of the settings document as (object index, part index)
PartEntries ==
  UNION { { <<o, v>> : v \in 1..Len(settings.Objects[o].Parts) } :
            o \in 1..Len(settings.Objects) }

EntryOf(e) == settings.Objects[e[1]].Parts[e[2]]

\* C1: after any merge (flat, grouped or multi-plate) over packages holding
\* one or more objects, no two objects of Resources share an ID and every ID
\* a Component or a BuildItem refers to is the ID of an object in Resources.
C1_UniqueResolvedIDs ==
  MergeRun =>
    /\ \A j, k \in ObjIdx : j # k => model.Objects[j].ID # model.Objects[k].ID
    /\ \A k \in ObjIdx : ComponentIDs(k) \subseteq ObjectIDs
    /\ \A b \in 1..Len(model.Items) : model.Items[b].ObjectID \in ObjectIDs

\* C2: after a grouped merge the part IDs of the settings document are the
\* IDs of the mesh objects of the model document: every mesh ID is the ID of
\* exactly one part entry and every part entry has the ID of a mesh object.
C2_PartIDsAreMeshIDs ==
  GroupedRun =>
    /\ \A k \in MeshIdx :
         Cardinality({ e \in PartEntries : EntryOf(e).ID = model.Objects[k].ID }) = 1
    /\ \A e \in PartEntries :
         \E k \in MeshIdx : model.Objects[k].ID = EntryOf(e).ID

\* a grouped merge of three parts whose packer returned the groups out of order
C2_Witness ==
  /\ GroupedRun
  /\ Cardinality(MeshIdx) = MaxParts
  /\ Len(packingResults) >= 2
  /\ packingResults[1].ID # 0

\* the object a build item of the given ID places covers the mesh: it is the
\* mesh itself or a parent with the mesh among its components
Covers(objectID, meshID) ==
  \/ objectID = meshID
  \/ \E k \in ParentIdx : model.Objects[k].ID = objectID /\ meshID \in ComponentIDs(k)

\* C3: after a grouped merge, for every part i, a part entry of the settings
\* document carrying that part's name has the ID of the mesh object built from
\* part i and is listed under the settings object whose ID is the object ID of
\* the group's build item, whatever the order the packer returned.
C3_PartEntryMirrorsMesh ==
  GroupedRun =>
    \A i \in 1..Len(SuppliedParts) :
      \E e \in PartEntries :
        /\ EntryOf(e).Name = SuppliedParts[i].Name
        /\ EntryOf(e).ID = model.Objects[i].ID
        /\ Covers(settings.Objects[e[1]].ID, model.Objects[i].ID)
        /\ \E b \in 1..Len(model.Items) :
             model.Items[b].ObjectID = settings.Objects[e[1]].ID

\* merges that run the ingestion loop which resolves the filament slot
SlotRun ==
  phase = "done" /\ call.op \in GroupedOps \cup {"CombineWithDistance", "threemf.Combine"}

C5_ExtruderIsResolvedSlot ==
  GroupedRun =>
    \A i \in 1..Len(SuppliedParts) :
      \E e \in PartEntries :
        /\ EntryOf(e).Name = SuppliedParts[i].Name
        /\ EntryOf(e).Extruder # 0
        /\ EntryOf(e).Extruder = model.Objects[i].PID

\* the 1-based ingestion indices of the parts of supplied group g
MembersOf(g) ==
  LET before == Len(FlattenGroups(SubSeq(objectGroups, 1, g - 1)))
  IN  (before + 1)..(before + Len(objectGroups[g].Parts))

\* C6: after a grouped merge, a supplied group of two or more parts has
\* exactly one synthetic parent, with one component per member that refers to
\* the member's mesh ID and translates by the member's position offset; a
\* supplied group of one part has no parent and a build item on its mesh ID.
C6_ParentPerMultiPartGroup ==
  GroupedRun =>
    \A g \in 1..Len(objectGroups) :
      LET members == MembersOf(g)
          parents == { k \in ParentIdx : ComponentIDs(k) \cap members # {} }
      IN  IF Len(objectGroups[g].Parts) >= 2
          THEN /\ Cardinality(parents) = 1
               /\ \A k \in parents :
                    /\ Len(model.Objects[k].Components) = Cardinality(members)
                    /\ \A i \in members :
                         \E c \in 1..Len(model.Objects[k].Components) :
                           /\ model.Objects[k].Components[c].ObjectID = model.Objects[i].ID
                           /\ model.Objects[k].Components[c].Transform =
                                <<1, 0, 0, 0, 1, 0, 0, 0, 1,
                                  100 * SuppliedParts[i].PositionX,
                                  100 * SuppliedParts[i].PositionY,
                                  100 * SuppliedParts[i].PositionZ>>
          ELSE /\ parents = {}
               /\ \A i \in members :
                    \E b \in 1..Len(model.Items) :
                      model.Items[b].ObjectID = model.Objects[i].ID

\* C7: after a merge of a caller-supplied group list (names may repeat) the
\* model has one build item per supplied group, and Resources.Objects is the
\* ingested mesh objects followed by the synthetic parents.
C7_OneItemPerGroup ==
  (phase = "done" /\ call.op = "CombineWithObjectGroups") =>
    /\ Len(model.Items) = Len(objectGroups)
    /\ MeshIdx = 1..Len(SuppliedParts)
    /\ \A k \in ParentIdx : model.Objects[k].Type = "model" /\ k > Len(SuppliedParts)

\* C8: after a grouped merge the object IDs come from one counter from 1: the
\* meshes have 1..N in ingestion order, every parent has a larger ID, and no
\* ID is skipped or used twice (the k-th object of Resources has ID k).
C8_SingleCounter ==
  GroupedRun =>
    /\ \A k \in ObjIdx : model.Objects[k].ID = k
    /\ \A i \in 1..Len(SuppliedParts) :
         /\ i \in MeshIdx
         /\ model.Objects[i].Name = SuppliedParts[i].Name
    /\ \A k \in ParentIdx : \A i \in MeshIdx : model.Objects[k].ID > model.Objects[i].ID

\* a grouped merge that made a parent and placed it after a single-part group
C8_Witness ==
  /\ GroupedRun
  /\ ParentIdx # {}
  /\ Len(model.Items) >= 2
  /\ \E k \in ParentIdx : model.Items[Len(model.Items)].ObjectID = model.Objects[k].ID

\* merges that are handed the caller's group list
SuppliedGroupRun ==
  phase = "done" /\ call.op \in {"CombineWithObjectGroups", "CombineWithPlateGroups"}

\* the lowest vertex Z of the i-th mesh object of the merged model
LowestZ(i) ==
  SeqMin([v \in 1..Len(model.Objects[i].Vertices) |-> model.Objects[i].Vertices[v].z])

\* the lowest point of supplied group g: over its members, the member's lowest
\* vertex Z plus the member's Z position offset
GroupLowestZ(g) ==
  LET members == Ascending(MembersOf(g))
  IN  SeqMin([j \in 1..Len(members) |->
                LowestZ(members[j]) + SuppliedParts[members[j]].PositionZ])

\* C11: after a merge of a supplied group list, every group whose normalize
\* flag is set has its lowest point at 0: the minimum over its members of the
\* member's lowest vertex Z after the merge plus its Z position offset is 0.
C11_GroundNormalized ==
  SuppliedGroupRun =>
    \A g \in 1..Len(objectGroups) :
      objectGroups[g].NormalizePosition => GroupLowestZ(g) = 0

\* the vertices of the i-th mesh as they are before the normalization step:
\* rotated by the grouped merge, as read by the multi-plate merge
BeforeNormalization(i) ==
  IF call.op = "CombineWithPlateGroups"
  THEN tempFiles[i][1].Vertices
  ELSE IngestMeshes(tempFiles, SuppliedParts)[i].Vertices

\* the translation along Z, in hundredths of a millimetre, of the transforms
\* that carry mesh i: the build item on it or the component referring to it
TransformsZ(i) ==
  { model.Items[b].Transform[12] :
      b \in { c \in 1..Len(model.Items) : model.Items[c].ObjectID = model.Objects[i].ID } }
  \cup
  UNION { { model.Objects[k].Components[c].Transform[12] :
              c \in { d \in 1..Len(model.Objects[k].Components) :
                        model.Objects[k].Components[d].ObjectID = model.Objects[i].ID } } :
          k \in ParentIdx }

\* C12: after a merge of a supplied group list, every member of a group whose
\* normalize flag is false has the vertices it had before the normalization
\* step (no Z shift), and the one transform that carries it translates along Z
\* by exactly its Z position offset.
C12_NoShiftWithoutNormalize ==
  SuppliedGroupRun =>
    \A g \in 1..Len(objectGroups) :
      ~objectGroups[g].NormalizePosition =>
        \A i \in MembersOf(g) :
          /\ model.Objects[i].Vertices = BeforeNormalization(i)
          /\ TransformsZ(i) = { 100 * SuppliedParts[i].PositionZ }

\* the merge entry points of threemf.Combiner
CombinerOps ==
  GroupedOps \cup {"threemf.Combine", "CombineWithDistance", "CombineWithPlateGroups"}

CombinerRun == phase = "done" /\ call.op \in CombinerOps

\* C13: whenever a source package could not be read or the output container
\* could not be created or written during a merge entry point of the Combiner,
\* the entry point returns an error: a failed merge never returns nil.
C13_FailurePropagates ==
  (CombinerRun /\ outcome.failed) => outcome.returned = "error"

\* C14: after a merge that returned an error no file exists at the output
\* path, and a file exists there only if no stage of the merge failed and the
\* container is complete and sealed.
C14_NoPartialOutput ==
  MergeRun =>
    /\ outcome.returned = "error" => ~output.exists
    /\ output.exists =>
         /\ ~outcome.failed
         /\ output.sealed
         /\ output.entries = <<ModelEntry, SettingsEntry>>
                               \o CopyEntries(template, Len(template))

\* the entries a merge over the given template has to write
ExpectedEntries(tpl) == <<ModelEntry, SettingsEntry>> \o CopyEntries(tpl, Len(tpl))

\* C19: after a merge reported success the output container is sealed and
\* holds exactly one generated model entry, one generated settings entry and
\* every template entry of another name, copied once with its name and bytes
\* unchanged; no entry name appears twice.
C19_ContainerEntries ==
  (MergeRun /\ outcome.returned = "nil") =>
    /\ output.exists /\ output.sealed
    /\ output.entries = ExpectedEntries(template)
    /\ \A i, j \in 1..Len(output.entries) :
         i # j => output.entries[i].name # output.entries[j].name

\* C15: once Execute of a build plan has returned, with nil or with the error
\* of any step, no scratch mesh file the plan created exists any more.
C15_ScratchRemoved ==
  plan.pc = "returned" => scratch = {}

\* C16: CalculateBoundingBox returns an error when the mesh has no vertex or
\* when a coordinate of any vertex, at any position of the list, is not a
\* number; a box it returns is the per-axis minimum and maximum over all the
\* vertices of the mesh.
C16_BoundingBoxOrError ==
  (phase = "done" /\ call.op = "CalculateBoundingBox") =>
    LET vs == tempFiles[1][1].Vertices
        Coord(axis) == [i \in 1..Len(vs) |-> vs[i][axis]]
    IN  /\ (vs = <<>> \/ \E i \in 1..Len(vs) : vs[i].bad) => call.bbox.err
        /\ ~call.bbox.err =>
             /\ call.bbox.MinX = SeqMin(Coord("x")) /\ call.bbox.MaxX = SeqMax(Coord("x"))
             /\ call.bbox.MinY = SeqMin(Coord("y")) /\ call.bbox.MaxY = SeqMax(Coord("y"))
             /\ call.bbox.MinZ = SeqMin(Coord("z")) /\ call.bbox.MaxZ = SeqMax(Coord("z"))

SetMin(S) == CHOOSE v \in S : \A w \in S : v <= w

SetMax(S) == CHOOSE v \in S : \A w \in S : v >= w

\* the values, in hundredths of a millimetre, that the vertices of the meshes
\* placed by build item b take on an axis once the component transform (if
\* any) and the build item transform are applied; axis is "x" or "y" and t the
\* index of its translation term in a transform (10 for X, 11 for Y)
PlacedCoords(b, axis, t) ==
  LET item == model.Items[b]
      Coords(i, shift) ==
        { 100 * model.Objects[i].Vertices[v][axis] + shift + item.Transform[t] :
            v \in 1..Len(model.Objects[i].Vertices) }
      parents == { p \in ParentIdx : model.Objects[p].ID = item.ObjectID }
  IN  UNION ( { Coords(i, 0) : i \in { k \in MeshIdx : model.Objects[k].ID = item.ObjectID } }
              \cup
              UNION { { Coords(model.Objects[k].Components[c].ObjectID,
                               model.Objects[k].Components[c].Transform[t]) :
                          c \in 1..Len(model.Objects[k].Components) } : k \in parents } )

\* C17: in a grouped merge every build item puts the lower XY corner of its
\* group's geometry, after the component transforms and the build item
\* transform, at the placement the packer returned for the group's footprint,
\* and the group's XY extent lies inside the packed rectangle; single-part
\* groups with a position offset included.
C17_PlacedAtPackedCorner ==
  GroupedRun =>
    /\ Len(model.Items) = Len(packingResults)
    /\ \A b \in 1..Len(model.Items) :
         LET r == packingResults[b]
         IN  /\ SetMin(PlacedCoords(b, "x", 10)) = 100 * r.X
             /\ SetMin(PlacedCoords(b, "y", 11)) = 100 * r.Y
             /\ SetMax(PlacedCoords(b, "x", 10)) <= 100 * (r.X + r.Width)
             /\ SetMax(PlacedCoords(b, "y", 11)) <= 100 * (r.Y + r.Height)

\* a multi-plate merge of one plate, packed with the row width the grouped
\* single-plate merge uses
OnePlateRun ==
  /\ phase = "done"
  /\ call.op = "CombineWithPlateGroups"
  /\ outcome.returned = "nil"
  /\ Len(call.plateGroups) = 1
  /\ call.plateWidth = DefaultBuildPlateWidth

\* the model documents the grouped single-plate merge builds from the same
\* packages and groups with the same margin and algorithm
SinglePlateModels ==
  { out.model :
      out \in CombineWithGroupsAndDistanceInternal(
                tempFiles, FlattenGroups(objectGroups), objectGroups,
                DefaultPackingDistance, call.algorithm) }

\* C18: a multi-plate merge of exactly one plate writes the model the grouped
\* single-plate merge writes for the same groups, margin, algorithm and row
\* width: the same objects (IDs, names, filament slots, rotated and
\* ground-normalized vertices), the same Components and the same BuildItems.
C18_OnePlateAsSinglePlate == OnePlateRun => model \in SinglePlateModels

RepeatedRun == phase = "done" /\ call.op = "CombineWithObjectGroups again"

RowWidth == IF call.op = "PackOptimal" THEN call.maxBuildPlateWidth ELSE PackMaxWidth

\* the widths of the input with one margin between neighbours
RowDemand ==
  SumSeq([i \in 1..Len(packingObjects) |-> packingObjects[i].Width])
    + (Len(packingObjects) - 1) * margin

\* C21: the shelf packer opens a new shelf only when the next rectangle,
\* put after the previous one and the margin, would end beyond the maximum
\* row width; so when the widths plus one margin between neighbours are at
\* most the row width, every rectangle is at y = 0, the first at x = 0 and
\* every other at the previous one's x plus its width plus the margin.
C21_OneShelfWhenRowFits ==
  ShelfRun =>
    /\ \A i \in ResultIdx \ {1} :
         packTrace.shelves[i] # packTrace.shelves[i - 1] =>
           packingResults[i - 1].X + packingResults[i - 1].Width + margin
             + packingResults[i].Width > RowWidth
    /\ (packingObjects # <<>> /\ RowDemand <= RowWidth) =>
         /\ packingResults[1].X = 0
         /\ \A i \in ResultIdx :
              /\ packingResults[i].Y = 0
              /\ i > 1 => packingResults[i].X =
                            packingResults[i - 1].X + packingResults[i - 1].Width + margin

\* the three rectangles 40x40, 60x30 and 20x20 packed with margin 10 in a
\* row of 256
C21_Witness ==
  /\ phase = "done"
  /\ call.op = "PackOptimal"
  /\ call.maxBuildPlateWidth = DefaultBuildPlateWidth
  /\ margin = DefaultPackingDistance
  /\ Len(packingResults) = 3
  /\ { <<packingObjects[i].Width, packingObjects[i].Height>> : i \in 1..3 }
       = { <<40, 40>>, <<60, 30>>, <<20, 20>> }
  /\ packingResults[3].X = 120

TransformRun == phase = "done" /\ call.op \in {"BuildTranslationTransform", "BuildRotationTransform"}

\* a parsed number is t (in thousandths) rounded to two decimals: it has two
\* decimals and lies within half a hundredth of t
IsRoundedTo2(parsed, t) ==
  LET hundredths == IF parsed.neg THEN -parsed.num ELSE parsed.num
      diff == 10 * hundredths - t
  IN  /\ ~parsed.err
      /\ parsed.scale = 2
      /\ diff <= 5
      /\ -diff <= 5

\* C22: the transform string of a pure translation has exactly 12
\* space-separated fields, the first nine being 1 0 0 0 1 0 0 0 1, and
\* ParseTransformOffset succeeds on it and returns tx, ty, tz rounded to two
\* decimals; a transform built with a rotation has exactly 12 fields too, the
\* last three being tx, ty, tz with two decimals.
C22_TransformRoundTrip ==
  TransformRun =>
    LET parts == Fields(call.transform)
    IN  /\ Len(parts) = 12
        /\ call.op = "BuildTranslationTransform" =>
             /\ SubSeq(parts, 1, 9) = << <<"1">>, <<"0">>, <<"0">>, <<"0">>, <<"1">>,
                                         <<"0">>, <<"0">>, <<"0">>, <<"1">> >>
             /\ call.offset.ok
        /\ IsRoundedTo2(ParseFloat(parts[10]), call.tx)
        /\ IsRoundedTo2(ParseFloat(parts[11]), call.ty)
        /\ IsRoundedTo2(ParseFloat(parts[12]), call.tz)
        /\ call.offset.ok =>
             /\ IsRoundedTo2(call.offset.x, call.tx)
             /\ IsRoundedTo2(call.offset.y, call.ty)
             /\ IsRoundedTo2(call.offset.z, call.tz)

\* a translation whose terms need rounding (99.995 carries into 100.00,
\* -0.004 rounds to -0.00) parsed back
C22_Witness ==
  /\ phase = "done"
  /\ call.op = "BuildTranslationTransform"
  /\ call.tx = 99995
  /\ call.ty = -4
  /\ call.tz = 10500
  /\ call.offset.ok
  /\ call.offset.x.num = 10000
  /\ call.offset.y.neg
  /\ call.offset.z.num = 1050

\* every object of a configuration, at the top level or in a plate
AllYamlObjects(config) == config.Objects \o PlateYamlObjects(config.Plates)

\* what the claim requires of an accepted configuration
WellFormed(config) ==
  /\ config.Output # ""
  /\ AllYamlObjects(config) # <<>>
  /\ \A i \in 1..Len(AllYamlObjects(config)) :
       LET obj == AllYamlObjects(config)[i]
       IN  /\ obj.Name # ""
           /\ obj.Parts # <<>>
           /\ \A j \in 1..Len(obj.Parts) :
                /\ obj.Parts[j].Name # ""
                /\ obj.Parts[j].File # ""
                /\ obj.Parts[j].Filament \in 0..4

\* C23: Validate accepts a configuration only if the output is non-empty, at
\* least one object is defined, every object has a name and at least one
\* part, every part has a name and a file, and every filament value is in
\* 0..4; a configuration that violates one of these gets an error, and no
\* part with a filament value outside 0..4 is handed to the merge.
C23_ValidateRejects ==
  (phase = "done" /\ call.op \in {"Validate", "Load"}) =>
    /\ call.err = "nil" => WellFormed(call.config)
    /\ \A g \in 1..Len(objectGroups) :
         \A j \in 1..Len(objectGroups[g].Parts) :
           objectGroups[g].Parts[j].FilamentSlot \in 0..4

\* an accepted configuration was loaded and its groups reached the merge
C23_Witness ==
  /\ phase = "done"
  /\ call.op = "Load"
  /\ call.err = "nil"
  /\ Len(objectGroups) = 2
  /\ \E j \in 1..Len(objectGroups[2].Parts) : objectGroups[2].Parts[j].FilamentSlot = 4

\* the file names a list of config maps defines
Defined(configMaps) == UNION { DOMAIN configMaps[i] : i \in 1..Len(configMaps) }

\* the content a list of config maps gives a file name: that of the last map
\* that defines it
LastContent(configMaps, n) ==
  LET hits == { i \in 1..Len(configMaps) : n \in DOMAIN configMaps[i] }
  IN  configMaps[CHOOSE i \in hits : \A k \in hits : k <= i][n]

\* the lines of the texts a list of config maps may produce for a file name
LinesOf(configMaps, n) ==
  UNION { UNION { { text[l] : l \in 1..Len(text) } :
                    text \in ConvertConfigContent(configMaps[i][n]) } :
          i \in { k \in 1..Len(configMaps) : n \in DOMAIN configMaps[k] } }

\* C24: in the list ConvertToScadFiles returns, the config files of a part
\* are those of its object and its own; for a file name the part defines,
\* the text is the part's and holds no line of the object's content for that
\* name; for a file name only the object defines, the text is the object's.
C24_PartOverridesObject ==
  (phase = "done" /\ call.op = "ConvertToScadFiles") =>
    LET pairs == PartsInOrder(call.config.Objects)
    IN  /\ Len(call.scadFiles) = Len(pairs)
        /\ \A k \in 1..Len(pairs) :
             LET obj   == pairs[k].obj
                 part  == pairs[k].part
                 files == call.scadFiles[k].ConfigFiles
             IN  /\ DOMAIN files = Defined(obj.Config) \cup Defined(part.Config)
                 /\ \A n \in Defined(part.Config) :
                      /\ files[n] \in ConvertConfigContent(LastContent(part.Config, n))
                      /\ \A l \in 1..Len(files[n]) :
                           files[n][l] \in LinesOf(obj.Config, n) =>
                             files[n][l] \in LinesOf(part.Config, n)
                 /\ \A n \in Defined(obj.Config) \ Defined(part.Config) :
                      files[n] \in ConvertConfigContent(LastContent(obj.Config, n))

\* a part that sets h and w in cfg.scad under an object that gives cfg.scad
\* as text and defines lib.scad too
C24_Witness ==
  /\ phase = "done"
  /\ call.op = "ConvertToScadFiles"
  /\ \E k \in 1..Len(call.scadFiles) :
       LET pair == PartsInOrder(call.config.Objects)[k]
       IN  /\ "lib.scad" \in Defined(pair.obj.Config)
           /\ Defined(pair.part.Config) = {"cfg.scad"}
           /\ pair.part.Config[1]["cfg.scad"].kind = "map"
           /\ DOMAIN pair.part.Config[1]["cfg.scad"].values = {"h", "w"}
           /\ DOMAIN call.scadFiles[k].ConfigFiles = {"cfg.scad", "lib.scad"}

\* C25: a plan reads or removes a scratch file another plan wrote only if
\* the two plans were in flight at the same time; with at most one plan in
\* flight every scratch file a plan reads, and every one it removes, was
\* written by that plan.  (That two concurrent plans do collide is the
\* reachability of C25_Witness.)
C25_OwnScratchUnlessConcurrent ==
  \A p \in Plans :
    (plan[p].read \cup plan[p].removed) \subseteq {p}
      \/ ("overlapped" \in DOMAIN call /\ call.overlapped)

\* two plans in flight at once: one has merged a scratch file the other
\* wrote and has returned nil, and a plan has removed a file of the other
C25_Witness ==
  /\ \E p \in Plans :
       /\ plan[p].result = "nil"
       /\ \E q \in Plans \ {p} : q \in plan[p].read
       /\ ~plan[p].missing
  /\ \E p \in Plans : \E q \in Plans \ {p} : q \in plan[p].removed

Area(r) == r.Width * r.Height

\* a comes no later than b under the key (area descending, height descending)
AreaThenHeight(a, b) ==
  Area(a) > Area(b) \/ (Area(a) = Area(b) /\ a.Height >= b.Height)

\* C26: with the "default" algorithm the merge places the group footprints
\* in order of area descending, ties broken by height descending: the first
\* placement is at (0, 0) and has the largest area, and every later
\* placement follows its predecessor under the same key.
C26_DefaultPlacesByArea ==
  (GroupedRun /\ call.algorithm = "default" /\ Len(packingResults) > 0) =>
    /\ packingResults[1].X = 0 /\ packingResults[1].Y = 0
    /\ \A i \in 1..Len(packingResults) - 1 :
         AreaThenHeight(packingResults[i], packingResults[i + 1])

\* the order the default merge does keep: height descending
C26_DefaultPlacesByHeight ==
  (GroupedRun /\ call.algorithm = "default") =>
    \A i \in 1..Len(packingResults) - 1 :
      packingResults[i].Height >= packingResults[i + 1].Height

\* the parts (package indices) that the merge files under objectName
PartsFiledUnder(objectName) ==
  { i \in 1..Len(tempFiles) :
      ObjectNameOf(FlattenGroups(objectGroups)[i].Name) = objectName }

\* the package's mesh has a bounding box: it has vertices and the first parses
Computable(i) ==
  LET vs == tempFiles[i][1].Vertices IN vs # <<>> /\ ~vs[1].bad

\* the X or Y coordinates of the parsable vertices of the computable members
\* of a group, each moved by its part's position offset
MemberCoords(members, axis) ==
  UNION { LET vs == tempFiles[i][1].Vertices
              sf == FlattenGroups(objectGroups)[i]
          IN  { IF axis = "x" THEN vs[k].x + sf.PositionX ELSE vs[k].y + sf.PositionY :
                  k \in { k \in 1..Len(vs) : ~vs[k].bad } } :
          i \in { m \in members : Computable(m) } }

SkipRun == GroupedRun /\ \E i \in 1..Len(tempFiles) : ~Computable(i)

FirstFailing(steps) ==
  IF \E i \in 1..Len(steps) : steps[i]
  THEN CHOOSE i \in 1..Len(steps) : steps[i] /\ \A j \in 1..(i - 1) : ~steps[j]
  ELSE 0

\* C28 (order and fail-fast): the steps are executed in list order, each at
\* most once and none after a step that returned an error; when Execute has
\* returned an error it is the error of the first failing step and that step
\* is the last one executed; when it has returned nil every step was
\* executed and returned nil.
C28_ExecuteInOrderFailFast ==
  /\ \A k \in 1..Len(plan.executed) : plan.executed[k] = k
  /\ \A k \in 1..(Len(plan.executed) - 1) : ~plan.Steps[k]
  /\ plan.result.returned =>
       IF plan.result.err # NilError
       THEN /\ plan.result.err = FirstFailing(plan.Steps)
            /\ Len(plan.executed) = FirstFailing(plan.Steps)
       ELSE /\ Len(plan.executed) = Len(plan.Steps)
            /\ \A k \in 1..Len(plan.Steps) : ~plan.Steps[k]

\* C28 (no later step): once Execute has returned nothing more is executed
C28_NothingAfterReturn ==
  [][plan.result.returned => plan' = plan]_vars

\* C28 (termination): Execute returns
C28_ExecuteReturns == <>(plan.result.returned)

\* Execute returned the error of the second of four steps; the third and
\* fourth, one of which would fail too, were not executed
C28_Witness ==
  /\ plan.result.returned
  /\ Len(plan.Steps) = 4
  /\ plan.result.err = 2
  /\ plan.Steps[4]
  /\ plan.executed = <<1, 2>>

\* Execute returned nil after four steps
C28_WitnessNil ==
  /\ plan.result.returned /\ plan.result.err = NilError
  /\ plan.executed = <<1, 2, 3, 4>>

CompactRun == phase = "done" /\ call.op = "PackCompact"

\* the footprints of a and b, each enlarged by m to the right and below,
\* have no point in common
Apart(a, b, m) ==
  \/ a.X + a.Width + m <= b.X
  \/ b.X + b.Width + m <= a.X
  \/ a.Y + a.Height + m <= b.Y
  \/ b.Y + b.Height + m <= a.Y

\* C29: no two placements of the guillotine packer overlap: the footprints
\* of any two placed rectangles, enlarged by the margin on the right and
\* bottom sides, are disjoint, also after fallback rows were appended.
C29_CompactNeverOverlaps ==
  CompactRun =>
    \A i, j \in 1..Len(packingResults) :
      i < j => Apart(packingResults[i], packingResults[j], margin)

\* the same for runs that needed no fallback row
C29_NoOverlapWithoutFallback ==
  (CompactRun /\ packTrace.fallbacks = 0) =>
    \A i, j \in 1..Len(packingResults) :
      i < j => Apart(packingResults[i], packingResults[j], margin)

PlateRun == phase = "done" /\ call.op = "CombineWithPlateGroups" /\ ~outcome.failed

\* C30: in a multi-plate merge every build item of plate k has its whole X
\* extent inside [k * plateWidth, (k + 1) * plateWidth), for both packing
\* algorithms (coordinates in hundredths of a millimetre).
C30_ItemsInsideTheirPlate ==
  PlateRun =>
    /\ Len(model.Items) = Len(packTrace.plates)
    /\ \A b \in 1..Len(model.Items) :
         LET k == packTrace.plates[b]
         IN  /\ SetMin(PlacedCoords(b, "x", 10)) >= 100 * k * call.plateWidth
             /\ SetMax(PlacedCoords(b, "x", 10)) < 100 * (k + 1) * call.plateWidth

\* the same with the right edge of the plate allowed
C30_ItemsWithinPlateWidth ==
  PlateRun =>
    \A b \in 1..Len(model.Items) :
      LET k == packTrace.plates[b]
      IN  /\ SetMin(PlacedCoords(b, "x", 10)) >= 100 * k * call.plateWidth
          /\ SetMax(PlacedCoords(b, "x", 10)) <= 100 * (k + 1) * call.plateWidth

\* build items b and c overlap in X and in Y
ItemsOverlap(b, c) ==
  /\ SetMin(PlacedCoords(b, "x", 10)) < SetMax(PlacedCoords(c, "x", 10))
  /\ SetMin(PlacedCoords(c, "x", 10)) < SetMax(PlacedCoords(b, "x", 10))
  /\ SetMin(PlacedCoords(b, "y", 11)) < SetMax(PlacedCoords(c, "y", 11))
  /\ SetMin(PlacedCoords(c, "y", 11)) < SetMax(PlacedCoords(b, "y", 11))

\* the consequence C30 names: items of different plates never overlap
C30_PlatesNeverOverlap ==
  PlateRun =>
    \A b, c \in 1..Len(model.Items) :
      packTrace.plates[b] # packTrace.plates[c] => ~ItemsOverlap(b, c)

====
